---- MODULE Spec2Model ----
(***************************************************************************)
(* gnomecast: the transcode-and-stream engine.                             *)
(*   Transcoder   (gnomecast/main.py)      plan, encoder process, monitor, *)
(*                                         wait_for_byte, destroy          *)
(*   Gnomecast    (gnomecast/main.py)      file queue, job slots,          *)
(*                                         update_transcoders worker       *)
(*   video()      (gnomecast/webserver.py) range request handler           *)
(* Byte counts are bytes; seconds are kept in hundredths of a second.      *)
(***************************************************************************)
EXTENDS Integers, Sequences, FiniteSets, TLC

\* ---------------------------------------------------------------- bounds
MaxJobs == 3        \* Transcoder objects ever constructed in one run
MaxRows == 2        \* rows of files_store at one time
MaxOps == 3         \* operations of the user in a run of the whole application
StreamOps == 3      \* operations of the user in a run of StreamSpec
QueueOps == 6       \* operations of the user in a run of QueueSpec
QuitOps == 6        \* operations of the user in a run of QuitSpec
MaxThreads == 1     \* update_transcoders threads waiting for the lock
NumReaders == 2     \* concurrent HTTP request threads
ReaderOps == 3      \* operations of the user in a run of ReaderSpec
ReplaceOps == 4     \* operations of the user in a run of ReplaceSpec
TempOps == 3        \* operations of the user in a run of TempSpec
MaxNames == 2       \* names mkstemp draws from
MaxQueue == 3      \* rows of the queue the scan for the next file runs over
ScanOps == 2       \* operations in ScanSpec
SelectOps == 4     \* operations in SelectSpec
PrepOps == 1       \* operations in PrepSpec
DupOps == 4        \* operations in DupSpec
ThrottleOps == 5   \* calls of the throttled function in ThrottleSpec
SaverOps == 3      \* operations in SaverSpec
MaxCookies == 3    \* cookies the screen saver service hands out

\* ------------------------------------------------------------- constants
None == [none |-> TRUE]              \* None where an object is expected
NoPath == <<>>                      \* None where a path is expected
NoJob == 0                          \* None where a Transcoder is expected
BUFFER == 128 * 1024 * 1024        \* wait_for_byte: buffer, in bytes
AUDIO_EXTS == {"aac", "mp3", "wav"}

Jobs == 1 .. MaxJobs
Readers == 1 .. NumReaders

\* ------------------------------------------------ encoder progress output
\* the size= and time= tokens of one carriage-return-terminated update
SizeTok(tok, n) == [tok |-> tok, n |-> n]
TimeTok(tok, h, m, cs) == [tok |-> tok, h |-> h, m |-> m, cs |-> cs]

SizeToks ==
  { SizeTok("absent", 0), SizeTok("N/A", 0),
    SizeTok("kB", 73728), SizeTok("KiB", 393216) }
TimeToks ==
  { TimeTok("absent", 0, 0, 0), TimeTok("N/A", 0, 0, 0),
    TimeTok("hms", 0, 0, 1000), TimeTok("hms", 1, 4, 2114) }

\* the updates the encoder prints in the application model
AppSizeToks == { SizeTok("kB", 73728) }
AppTimeToks == { TimeTok("hms", 0, 0, 1000) }

\* byte offsets a player asks for
Offsets == {0, 209715200}

\* --------------------------------------------------------------- devices
Device(manufacturer, model_name, h265, ac3) ==
  [manufacturer |-> manufacturer, model_name |-> model_name,
   h265 |-> h265, ac3 |-> ac3]

_devices ==
  { Device("Unknown manufacturer", "Chromecast", FALSE, FALSE),
    Device("Unknown manufacturer", "Chromecast Ultra", TRUE, TRUE),
    Device("Unknown manufacturer", "Google Home Mini", FALSE, FALSE),
    Device("VIZIO", "P75-F1", TRUE, TRUE) }

get_device(manufacturer, model_name) ==
  IF \E d \in _devices :
       d.manufacturer = manufacturer /\ d.model_name = model_name
  THEN CHOOSE d \in _devices :
       d.manufacturer = manufacturer /\ d.model_name = model_name
  ELSE Device("Unknown manufacturer", "Default", FALSE, FALSE)

\* a cast as pychromecast reports it: cast.cast_info
CastInfo(manufacturer, model_name, cast_type) ==
  [manufacturer |-> manufacturer, model_name |-> model_name,
   cast_type |-> cast_type]

ChromecastCast == CastInfo("Unknown manufacturer", "Chromecast", "cast")
UltraCast == CastInfo("Unknown manufacturer", "Chromecast Ultra", "cast")
HomeMiniCast == CastInfo("Unknown manufacturer", "Google Home Mini", "audio")
UltraAudioCast == CastInfo("Unknown manufacturer", "Chromecast Ultra", "audio")
OtherCast == CastInfo("Acme", "TV", "cast")

\* the receivers the user can pick in the application model
Casts == {ChromecastCast, UltraCast}
\* the receivers the plan is computed for in the planning model
AllCasts == {ChromecastCast, UltraCast, HomeMiniCast, UltraAudioCast, OtherCast}

device(cast) == get_device(cast.manufacturer, cast.model_name)

\* ----------------------------------------------------------------- files
\* a path is <<stem, extension>>; lower() of the extensions in use
Lower(s) == IF s = "MP4" THEN "mp4" ELSE s

\* fn.lower().split(".")[-1]
Extension(fn) == Lower(fn[2])

StreamMetadata(fn, index, codec) ==
  [file |-> fn, index |-> index, codec |-> codec]

AudioMetadata(fn, index, codec, channels) ==
  [file |-> fn, index |-> index, codec |-> codec, channels |-> channels]

FileMetadata(fn, video_streams, audio_streams) ==
  [fn |-> fn, container |-> Extension(fn),
   video_streams |-> video_streams, audio_streams |-> audio_streams]

\* what probing finds in the files of the application model
MovieMp4 == <<"movie", "mp4">>
ClipAvi == <<"clip", "avi">>
SongMp3 == <<"song", "mp3">>
Probe(fn) ==
  CASE fn = MovieMp4 ->
         FileMetadata(fn, <<StreamMetadata(fn, "0:0", "h264")>>,
                      <<AudioMetadata(fn, "0:1", "aac", 2),
                        AudioMetadata(fn, "0:2", "ac3", 6)>>)
    [] OTHER ->
         FileMetadata(fn, <<StreamMetadata(fn, "0:0", "h264")>>,
                      <<AudioMetadata(fn, "0:1", "aac", 2)>>)

Files == {MovieMp4, ClipAvi}

\* what probing may find in the planning model
PlanExts == {"mp4", "MP4", "aac", "mp3", "wav", "avi", "mkv"}
VideoCodecs == {"h264", "h265", "hevc", "mpeg4"}
AudioCodecs == {"aac", "mp3", "ac3", "dts"}
Channels == {2, 6}

PlanAudio(fn) ==
  {None} \cup { AudioMetadata(fn, "0:1", c, n) : c \in AudioCodecs, n \in Channels }

\* ----------------------------------------------------------------- state
VARIABLES
  transcoders,   \* the Transcoder objects: Jobs -> fields
  disk,          \* temporary output paths that exist as files
  gnomecast,     \* fields of the Gnomecast object
  files_store,   \* the queue: rows [fn, transcoder]; fmd is Probe(fn)
  idle,          \* update_status(did_transcode=True) calls queued by idle_add
  threads,       \* update_transcoders threads started, waiting for the lock
  worker,        \* the update_transcoders thread that holds the lock
  requests,      \* the video() handler threads: Readers -> locals
  ops            \* operations of the user and the player still to come

vars == <<transcoders, disk, gnomecast, files_store, idle, threads, worker,
          requests, ops>>

\* the queue and the Gnomecast fields
app == <<gnomecast, files_store>>

\* ------------------------------------------------------------ Transcoder
\* an unused slot for a Transcoder object
NoTranscoder ==
  [state |-> "free", cast |-> None, source_fn |-> NoPath,
   video_stream |-> None, audio_stream |-> None,
   transcode_container |-> FALSE,
   transcode_video |-> FALSE, transcode_audio |-> FALSE, transcode |-> FALSE,
   trans_fn |-> NoPath, progress_bytes |-> 0, progress_seconds |-> 0,
   done |-> FALSE, p |-> "none", cmd |-> None,
   monitor |-> "none", opened |-> FALSE, destroyed |-> FALSE,
   done_calls |-> 0, error_calls |-> 0]

\* the path mkstemp hands to Transcoder object j
TempName(j) == <<"gnomecast_pid_transcode", j>>

can_play_video_codec_any_type(cast_, video_codec) ==
  IF device(cast_).h265
  THEN video_codec \in {"h264", "h265", "hevc"}
  ELSE video_codec \in {"h264"}

can_play_video_codec(cast_, video_codec) ==
  LET h265 == IF cast_.cast_type = "audio" THEN FALSE ELSE device(cast_).h265
  IN IF h265
     THEN video_codec \in {"h264", "h265", "hevc"}
     ELSE video_codec \in {"h264"}

can_play_audio_stream_ac3(cast_, stream) ==
  IF stream = None THEN TRUE
  ELSE stream.codec \in {"aac", "mp3", "ac3"}

can_play_audio_stream(cast_, stream) ==
  IF stream = None THEN TRUE
  ELSE IF device(cast_).ac3
       THEN stream.codec \in {"aac", "mp3", "ac3"}
       ELSE stream.codec \in {"aac", "mp3"}

transcode_audio_to_mp3(cast_, audio_stream_) == "mp3"

\* the local transcode_audio_to of the constructor
transcode_audio_to(cast_, audio_stream_) ==
  IF device(cast_).ac3 /\ audio_stream_ # None /\ audio_stream_.channels > 2
  THEN "ac3" ELSE "mp3"

\* the ffmpeg command line built by the constructor, by option
transcode_cmd(cast_, source_fn, video_stream_, audio_stream_, transcode_video, transcode_audio, trans_fn) ==
     [i |-> source_fn,
      map |-> <<video_stream_.index>>
              \o (IF audio_stream_ # None
                  THEN <<audio_stream_.index>> ELSE <<>>),
      c_a |-> IF audio_stream_ # None
              THEN (IF transcode_audio
                    THEN transcode_audio_to(cast_, audio_stream_)
                    ELSE "copy")
              ELSE "absent",
      b_a |-> IF audio_stream_ # None /\ transcode_audio
              THEN "256k" ELSE "absent",
      c_v |-> IF transcode_video THEN "h264" ELSE "copy",
      out |-> trans_fn]

transcode_container_mkv(fmd) ==
  fmd.container \notin {"mp4", "aac", "mp3", "wav", "mkv"}

\* the local transcode_container of the constructor
transcode_container(fmd) == fmd.container \notin {"mp4", "aac", "mp3", "wav"}

\* Transcoder.__init__ after prev_transcoder.destroy(), for object j; the
\* local transcode_container is kept with the fields
Transcoder(j, cast_, fmd, video_stream_, audio_stream_) ==
  LET transcode_video == ~ can_play_video_codec(cast_, video_stream_.codec)
      transcode_audio == \/ fmd.container \notin AUDIO_EXTS
                         \/ ~ can_play_audio_stream(cast_, audio_stream_)
      transcode == \/ transcode_container(fmd)
                   \/ transcode_video
                   \/ transcode_audio
      trans_fn == IF transcode THEN TempName(j) ELSE NoPath
  IN [state |-> "live", cast |-> cast_, source_fn |-> fmd.fn,
      video_stream |-> video_stream_, audio_stream |-> audio_stream_,
      transcode_container |-> transcode_container(fmd),
      transcode_video |-> transcode_video,
      transcode_audio |-> transcode_audio, transcode |-> transcode,
      trans_fn |-> trans_fn, progress_bytes |-> 0, progress_seconds |-> 0,
      done |-> ~ transcode,
      p |-> IF transcode THEN "running" ELSE "none",
      cmd |-> IF transcode
              THEN transcode_cmd(cast_, fmd.fn, video_stream_, audio_stream_,
                                 transcode_video, transcode_audio, trans_fn)
              ELSE None,
      monitor |-> IF transcode THEN "running" ELSE "none",
      opened |-> FALSE, destroyed |-> FALSE,
      done_calls |-> IF transcode THEN 0 ELSE 1,
      error_calls |-> 0]

\* lines 279-281: subprocess.Popen raises (no ffmpeg to execute) and the
\* exception leaves the constructor; self.p is still None, no callback has
\* been called and no monitor thread started. The object as the exception
\* leaves it, which no variable of the application comes to hold.
launch_failure(t) ==
  [t EXCEPT !.state = "raised", !.p = "none", !.monitor = "none"]

FnTemp(t) == t.trans_fn

\* Transcoder.fn
Fn(t) == IF t.transcode THEN t.trans_fn ELSE t.source_fn

\* p.poll() is None
Alive(t) == t.p \in {"running", "terminating"}

destroy_nothing(t) == t

destroy_terminates_always(t) ==
  [t EXCEPT !.p = IF t.p # "none" THEN "terminating" ELSE @,
            !.destroyed = TRUE]

\* Transcoder.destroy(): the object afterwards
destroy(t) ==
  [t EXCEPT !.p = IF t.p # "none" /\ Alive(t) THEN "terminating" ELSE @,
            !.destroyed = TRUE]

remove_called_without_isfile(t, files) == t.trans_fn # NoPath

\* Transcoder.destroy(): self.trans_fn and os.path.isfile(self.trans_fn)
remove_called(t, files) == t.trans_fn # NoPath /\ t.trans_fn \in files

destroy_files_fn(t, files) == files \ {Fn(t)}

\* Transcoder.destroy(): the files afterwards
destroy_files(t, files) ==
  IF remove_called(t, files) THEN files \ {t.trans_fn} ELSE files

\* Transcoder.destroy(): os.remove raises on a path that does not exist;
\* poll() and terminate() do not raise on a process that has exited
destroy_raises(t, files) == remove_called(t, files) /\ t.trans_fn \notin files

parse_size_1000(size) ==
  IF size.tok = "absent" THEN 0 * 1000 ELSE size.n * 1000

\* int(d.get("size", "0kb").lower().rstrip("kib")) * 1024
parse_size(size) ==
  IF size.tok = "absent" THEN 0 * 1024 ELSE size.n * 1024

\* parse_ffmpeg_time(d.get("time", "00:00:00")), in hundredths of a second
parse_ffmpeg_time(time) ==
  IF time.tok = "absent" THEN 0
  ELSE time.h * 60 * 60 * 100 + time.m * 60 * 100 + time.cs

\* ------------------------------------------- the text of a progress update
\* a str is a sequence of characters, as monitor collects them from the pipe
Whitespace == {" ", "\t", "\n", "\r"}
Digits == <<"0", "1", "2", "3", "4", "5", "6", "7", "8", "9">>
IsDigits(s) == s # <<>> /\ \A i \in 1 .. Len(s) : \E d \in 1 .. 10 : Digits[d] = s[i]
DigitValue(c) == (CHOOSE d \in 1 .. 10 : Digits[d] = c) - 1
ValueError == [ok |-> FALSE, v |-> 0]
Value(v) == [ok |-> TRUE, v |-> v]

\* s[i] is part of a match of =\s+ without being its "=": whitespace with
\* nothing but whitespace between it and an "=" before it
in_eq_gap(s, i) ==
  /\ s[i] \in Whitespace
  /\ \E k \in 1 .. i - 1 : s[k] = "=" /\ \A m \in k + 1 .. i : s[m] \in Whitespace

RECURSIVE re_sub_range(_, _, _)
\* the characters of s[lo .. hi] that the substitution keeps
re_sub_range(s, lo, hi) ==
  IF lo > hi THEN <<>>
  ELSE IF lo = hi THEN (IF in_eq_gap(s, lo) THEN <<>> ELSE <<s[lo]>>)
  ELSE re_sub_range(s, lo, (lo + hi) \div 2)
       \o re_sub_range(s, ((lo + hi) \div 2) + 1, hi)

\* re.compile(r"=\s+").sub("=", line): every match is replaced by its "="
re_sub_eq(s) == re_sub_range(s, 1, Len(s))

\* str.split(): the words of s between runs of whitespace, in their order
split_words(s) ==
  LET starts == { i \in 1 .. Len(s) :
                    s[i] \notin Whitespace /\ (i = 1 \/ s[i - 1] \in Whitespace) }
      last(i) == CHOOSE j \in i .. Len(s) :
                   /\ \A k \in i .. j : s[k] \notin Whitespace
                   /\ j = Len(s) \/ s[j + 1] \in Whitespace
      nth(r) == CHOOSE i \in starts : Cardinality({ k \in starts : k <= i }) = r
  IN [r \in 1 .. Cardinality(starts) |-> SubSeq(s, nth(r), last(nth(r)))]

RECURSIVE split_sep(_, _, _)
\* str.split(sep): the parts of s between the separators, w the part begun
split_sep(s, sep, w) ==
  IF s = <<>> THEN <<w>>
  ELSE IF Head(s) = sep THEN <<w>> \o split_sep(Tail(s), sep, <<>>)
  ELSE split_sep(Tail(s), sep, Append(w, Head(s)))

\* str.lower(), for the letters the encoder prints in a size or time field
lower_char(c) ==
  CASE c = "K" -> "k" [] c = "I" -> "i" [] c = "B" -> "b"
    [] c = "N" -> "n" [] c = "A" -> "a" [] OTHER -> c
str_lower(s) == [i \in 1 .. Len(s) |-> lower_char(s[i])]

RECURSIVE rstrip(_, _)
\* str.rstrip(chars): trailing characters of the set chars are dropped
rstrip(s, chars) ==
  IF s # <<>> /\ s[Len(s)] \in chars
  THEN rstrip(SubSeq(s, 1, Len(s) - 1), chars) ELSE s

RECURSIVE digits_value(_)
digits_value(s) ==
  IF s = <<>> THEN 0
  ELSE digits_value(SubSeq(s, 1, Len(s) - 1)) * 10 + DigitValue(s[Len(s)])

\* int(s) of a word: decimal digits, anything else raises ValueError
py_int(s) == IF IsDigits(s) THEN Value(digits_value(s)) ELSE ValueError

\* float(s) of a word, in hundredths: digits with at most two decimals, as
\* the encoder prints them; a word that is no number raises ValueError
py_float(s) ==
  LET parts == split_sep(s, ".", <<>>) IN
    IF Len(parts) = 1 /\ IsDigits(parts[1])
    THEN Value(digits_value(parts[1]) * 100)
    ELSE IF Len(parts) = 2 /\ IsDigits(parts[1]) /\ IsDigits(parts[2])
            /\ Len(parts[2]) <= 2
    THEN Value(digits_value(parts[1]) * 100
               + (IF Len(parts[2]) = 1 THEN 10 ELSE 1) * digits_value(parts[2]))
    ELSE ValueError

\* items = [s.split("=") for s in line.split()] after r.sub("=", line)
line_items(line) ==
  LET words == split_words(re_sub_eq(line))
  IN [i \in 1 .. Len(words) |-> split_sep(words[i], "=", <<>>)]

\* d = dict([x for x in items if len(x) == 2]) and the test `key in d`
dict_has(items, key) ==
  \E i \in 1 .. Len(items) : Len(items[i]) = 2 /\ items[i][1] = key

\* d[key]: the last item of that key
dict_get(items, key) ==
  LET at == { i \in 1 .. Len(items) : Len(items[i]) = 2 /\ items[i][1] = key }
  IN items[CHOOSE i \in at : \A k \in at : k <= i][2]

Key_size == <<"s", "i", "z", "e">>
Key_time == <<"t", "i", "m", "e">>

\* d.get("size", "0kb").lower().rstrip("kib") given to int(): the size token
size_tok(items) ==
  IF ~ dict_has(items, Key_size) THEN SizeTok("absent", 0)
  ELSE LET n == py_int(rstrip(str_lower(dict_get(items, Key_size)),
                              {"k", "i", "b"}))
       IN IF n.ok THEN SizeTok("int", n.v) ELSE SizeTok("N/A", 0)

\* d.get("time", "00:00:00") split at ":" with float() of the three parts:
\* the time token (whole hours and minutes, as the encoder prints them)
time_tok(items) ==
  IF ~ dict_has(items, Key_time) THEN TimeTok("absent", 0, 0, 0)
  ELSE LET parts == split_sep(dict_get(items, Key_time), ":", <<>>)
       IN IF Len(parts) = 3 /\ \A i \in 1 .. 3 : py_float(parts[i]).ok
          THEN TimeTok("hms", py_float(parts[1]).v \div 100,
                       py_float(parts[2]).v \div 100, py_float(parts[3]).v)
          ELSE TimeTok("N/A", 0, 0, 0)

\* ------------------------------------------- updates the encoder may print
RECURSIVE py_str(_)
\* the decimal digits of a natural number
py_str(n) ==
  IF n < 10 THEN <<Digits[n + 1]>> ELSE py_str(n \div 10) \o <<Digits[(n % 10) + 1]>>

\* %02d
pad2(n) == <<Digits[(n \div 10) + 1], Digits[(n % 10) + 1]>>

Spaces(k) == [i \in 1 .. k |-> " "]

\* frame=1 size=<gap><n><unit> time=hh:mm:ss.cc speed=<gap>2x\r
ProgressLine(n, unit, gap, h, m, cs) ==
  <<"f", "r", "a", "m", "e", "=", "1", " ">>
  \o Key_size \o <<"=">> \o Spaces(gap) \o py_str(n) \o unit \o <<" ">>
  \o Key_time \o <<"=">> \o pad2(h) \o <<":">> \o pad2(m) \o <<":">>
  \o pad2(cs \div 100) \o <<".">> \o pad2(cs % 100) \o <<" ">>
  \o <<"s", "p", "e", "e", "d", "=">> \o Spaces(gap) \o <<"2", "x", "\r">>

\* the update quoted in the comment of monitor, line 337
ExampleLine ==
  <<"f", "r", "a", "m", "e", "=", "9", "2", "5", "7", "8", " ", "f", "p",
    "s", "=", "3", "9", "3", "7", " ", "q", "=", "-", "1", ".", "0", " ",
    "s", "i", "z", "e", "=", " ", "1", "1", "4", "2", "5", "4", "2", "k",
    "B", " ", "t", "i", "m", "e", "=", "0", "1", ":", "0", "4", ":", "2",
    "1", ".", "1", "4", " ", "b", "i", "t", "r", "a", "t", "e", "=", "2",
    "4", "2", "4", ".", "1", "k", "b", "i", "t", "s", "/", "s", " ", "s",
    "p", "e", "e", "d", "=", " ", "1", "6", "4", "x", "\r">>

\* an update without a size field, and one whose fields are not numbers
NoSizeLine ==
  <<"f", "r", "a", "m", "e", "=", "1", " ", "t", "i", "m", "e", "=", "0",
    "0", ":", "0", "0", ":", "1", "0", ".", "0", "0", "\r">>
NotANumberLine ==
  <<"s", "i", "z", "e", "=", "N", "/", "A", " ", "t", "i", "m", "e", "=",
    "N", "/", "A", "\r">>

LineSizes == {0, 73728}
LineUnits == { <<"k", "B">>, <<"K", "i", "B">>, <<"k", "b">> }
LineGaps == {0, 1, 4}
LineTimes == { <<0, 0, 1000>>, <<1, 4, 2114>> }

Lines ==
  { ProgressLine(n, unit, gap, tm[1], tm[2], tm[3]) :
      n \in LineSizes, unit \in LineUnits, gap \in LineGaps, tm \in LineTimes }
  \cup {ExampleLine, NoSizeLine, NotANumberLine}

\* Transcoder.monitor: one update read from the pipe and parsed; int() and
\* float() raise on a token that is not a number and the thread ends there
monitor_update(t, size, time) ==
  IF size.tok = "N/A"
  THEN [t EXCEPT !.monitor = "crashed"]
  ELSE IF time.tok = "N/A"
  THEN [t EXCEPT !.monitor = "crashed",
                 !.progress_bytes = parse_size(size)]
  ELSE [t EXCEPT !.progress_bytes = parse_size(size),
                 !.progress_seconds = parse_ffmpeg_time(time)]

\* Transcoder.monitor, lines 336-346: one update, from its text
monitor_line(t, line) ==
  monitor_update(t, size_tok(line_items(line)), time_tok(line_items(line)))

monitor_eof_done_not_set(t) ==
  IF t.p \in {"exit1", "killed"}
  THEN [t EXCEPT !.monitor = "exited", !.error_calls = @ + 1]
  ELSE [t EXCEPT !.monitor = "exited", !.done_calls = @ + 1]

\* Transcoder.monitor: end of the encoder's output
monitor_eof(t) ==
  IF t.p \in {"exit1", "killed"}
  THEN [t EXCEPT !.monitor = "exited", !.error_calls = @ + 1]
  ELSE [t EXCEPT !.monitor = "exited", !.done = TRUE, !.done_calls = @ + 1]

\* a handler thread at rest; entered_destroyed and entered_done record
\* whether destroy() had been called on the object, and whether it was done,
\* when wait_for_byte was entered, abandoned whether the player has closed
\* the connection, fn the path given to static_file
NoRequest ==
  [pc |-> "idle", transcoder |-> NoJob, offset |-> 0,
   entered_destroyed |-> FALSE, entered_done |-> FALSE,
   abandoned |-> FALSE, fn |-> NoPath]
\* the update_transcoders thread at rest; transcoder is the object whose
\* constructor it runs and prev the prev_transcoder given to it
NoWorker == [pc |-> "idle", row |-> 0, transcoder |-> NoJob, prev |-> NoJob]

\* the closure of throttle(seconds)(f): timer is whether the variable timer
\* holds a Timer, latest_args the arguments kept (0: none yet), waiting and
\* running the Timer threads before and after their call of f, and ran the
\* arguments f was last run with
NoThrottle ==
  [timer |-> FALSE, latest_args |-> 0, waiting |-> 0, running |-> 0,
   ran |-> 0]

\* ScreenSaverInhibitor.__init__; interface is whether a screen saver
\* interface is found on the bus, and cookie 0 is None
NoInhibitor == [interface |-> TRUE, inhibit_cookie |-> 0]

\* Gnomecast.__init__, with the state of the player of the receiver
\* (player_state), the inhibitions the screen saver service holds
\* (inhibited) and the closure of the throttled volume_moved
GnomecastInit ==
  [cast |-> None, fn |-> NoPath, video_stream |-> None,
   audio_stream |-> None, transcoder |-> NoJob,
   autoplay |-> FALSE, quit |-> FALSE,
   last_known_player_state |-> "None", player_state |-> "UNKNOWN",
   screen_saver_inhibitor |-> NoInhibitor, inhibited |-> {},
   volume_moved |-> NoThrottle]

\* the application after construction, with n operations to come
Start(n) ==
  /\ transcoders = [j \in Jobs |-> NoTranscoder]
  /\ disk = {}
  /\ gnomecast = GnomecastInit
  /\ files_store = <<>>
  /\ idle = 0
  /\ threads = 0
  /\ worker = NoWorker
  /\ requests = [r \in Readers |-> NoRequest]
  /\ ops = n

Init == Start(MaxOps)

\* ------------------------------------------------ references and __del__
Row(fn_, transcoder) == [fn |-> fn_, transcoder |-> transcoder]

\* the jobs held by the rows of store S
RowJobs(S) == { S[i].transcoder : i \in 1 .. Len(S) } \ {NoJob}

\* the Transcoder objects some variable, row or thread refers to
Refs ==
  ({gnomecast.transcoder} \cup RowJobs(files_store) \cup {worker.transcoder}
     \cup { requests[r].transcoder : r \in Readers }) \ {NoJob}

\* a Transcoder object after __del__ has run and its memory is released
Collected == [NoTranscoder EXCEPT !.state = "collected"]

\* objects of T nothing refers to in the next state; a running monitor
\* thread refers to its object
Garbage(T) ==
  { j \in Jobs : /\ T[j].state = "live"
                 /\ T[j].monitor # "running"
                 /\ j \notin Refs' }

\* Transcoder.__del__ on the objects whose last reference the step drops:
\* T and D are the objects and the files the step leaves
Collect(T, D) ==
  /\ transcoders' =
       [j \in Jobs |->
          IF j \in Garbage(T)
          THEN (IF Alive(T[j]) THEN destroy(T[j]) ELSE Collected)
          ELSE T[j]]
  /\ disk' = D \ { T[j].trans_fn : j \in Garbage(T) }

\* ------------------------------------------------- encoder and its monitor
\* ffmpeg opens its output file
EncoderOpen(j) ==
  /\ UNCHANGED ops
  /\ transcoders[j].state = "live"
  /\ Alive(transcoders[j])
  /\ ~ transcoders[j].opened
  /\ transcoders' = [transcoders EXCEPT ![j].opened = TRUE]
  /\ disk' = disk \cup {transcoders[j].trans_fn}
  /\ UNCHANGED <<app, idle, threads, worker, requests>>

\* ffmpeg exits: by itself with code 0 or not 0, or on the signal sent to it
EncoderExit(j) ==
  /\ UNCHANGED ops
  /\ transcoders[j].state = "live"
  /\ \/ /\ transcoders[j].p = "running"
        /\ transcoders[j].opened
        /\ transcoders' = [transcoders EXCEPT ![j].p = "exit0"]
     \/ /\ transcoders[j].p = "running"
        /\ transcoders' = [transcoders EXCEPT ![j].p = "exit1"]
     \/ /\ transcoders[j].p = "terminating"
        /\ transcoders' = [transcoders EXCEPT ![j].p = "killed"]
  /\ UNCHANGED <<disk, app, idle, threads, worker, requests>>

\* monitor thread, lines 329-347: the encoder prints one progress update,
\* the monitor reads and parses it
MonitorUpdate(j, size, time) ==
  /\ UNCHANGED ops
  /\ transcoders[j].monitor = "running"
  /\ Alive(transcoders[j])
  /\ UNCHANGED <<app, idle, threads, worker, requests>>
  /\ Collect([transcoders EXCEPT ![j] = monitor_update(@, size, time)], disk)

\* monitor thread: lines 332-333 and 348-357
MonitorEof(j) ==
  /\ UNCHANGED ops
  /\ transcoders[j].monitor = "running"
  /\ ~ Alive(transcoders[j])
  /\ idle' = IF monitor_eof(transcoders[j]).done THEN idle + 1 ELSE idle
  /\ UNCHANGED <<app, threads, worker, requests>>
  /\ Collect([transcoders EXCEPT ![j] = monitor_eof(@)], disk)

\* the encoder processes and the monitor threads at their ends
EncoderNext ==
  \E j \in Jobs :
    \/ EncoderOpen(j)
    \/ EncoderExit(j)
    \/ MonitorEof(j)

\* progress updates with size= tokens of sizes and time= tokens of times
ProgressNext(sizes, times) ==
  \E j \in Jobs, size \in sizes, time \in times : MonitorUpdate(j, size, time)

\* ---------------------------------------------------------- planning model
\* self.transcoder = Transcoder(...) for any receiver and any probed file
PlanConstruct ==
  /\ UNCHANGED ops
  /\ transcoders[1].state = "free"
  /\ gnomecast' = [gnomecast EXCEPT !.transcoder = 1]
  /\ \E cast_ \in AllCasts, e \in PlanExts, v \in VideoCodecs :
       \E a \in PlanAudio(<<"x", e>>) :
         transcoders' =
           [transcoders EXCEPT ![1] =
              Transcoder(1, cast_,
                         FileMetadata(<<"x", e>>,
                                      <<StreamMetadata(<<"x", e>>, "0:0", v)>>,
                                      IF a = None THEN <<>> ELSE <<a>>),
                         StreamMetadata(<<"x", e>>, "0:0", v), a)]
  /\ UNCHANGED <<disk, files_store, idle, threads, worker, requests>>

\* the constructor called for a job that transcodes, where no encoder can
\* be started
PlanLaunchFailure ==
  /\ UNCHANGED ops
  /\ transcoders[1].state = "free"
  /\ \E cast_ \in AllCasts, e \in PlanExts, v \in VideoCodecs :
       \E a \in PlanAudio(<<"x", e>>) :
         LET t == Transcoder(1, cast_,
                             FileMetadata(<<"x", e>>,
                                          <<StreamMetadata(<<"x", e>>, "0:0", v)>>,
                                          IF a = None THEN <<>> ELSE <<a>>),
                             StreamMetadata(<<"x", e>>, "0:0", v), a)
         IN /\ t.transcode
            /\ transcoders' = [transcoders EXCEPT ![1] = launch_failure(t)]
  /\ UNCHANGED <<disk, app, idle, threads, worker, requests>>

\* Transcoder.destroy() called on the object
PlanDestroy ==
  /\ UNCHANGED ops
  /\ transcoders[1].state = "live"
  /\ transcoders' = [transcoders EXCEPT ![1] = destroy(@)]
  /\ disk' = destroy_files(transcoders[1], disk)
  /\ UNCHANGED <<app, idle, threads, worker, requests>>

PlanNext ==
  \/ PlanConstruct
  \/ PlanLaunchFailure
  \/ PlanDestroy
  \/ EncoderNext
  \/ ProgressNext(SizeToks, TimeToks)

PlanSpec == Init /\ [][PlanNext]_vars

\* ------------------------------------------------------------ parse model
\* a Transcoder constructed for a queued file and a receiver
ParseConstruct ==
  /\ UNCHANGED ops
  /\ transcoders[1].state = "free"
  /\ gnomecast' = [gnomecast EXCEPT !.transcoder = 1]
  /\ \E cast_ \in Casts, f \in Files :
       transcoders' =
         [transcoders EXCEPT ![1] =
            Transcoder(1, cast_, Probe(f), Probe(f).video_streams[1],
                       Probe(f).audio_streams[1])]
  /\ UNCHANGED <<disk, files_store, idle, threads, worker, requests>>

\* monitor thread, lines 329-347: the encoder prints the update line, the
\* monitor reads it to the carriage return and parses it
MonitorLine(j, line) ==
  MonitorUpdate(j, size_tok(line_items(line)), time_tok(line_items(line)))

ParseNext ==
  \/ ParseConstruct
  \/ PlanDestroy
  \/ EncoderNext
  \/ \E j \in Jobs, line \in Lines : MonitorLine(j, line)

ParseSpec == Init /\ [][ParseNext]_vars

\* ------------------------------------------------------- Gnomecast: queue
FreeJobs(T) == { j \in Jobs : T[j].state = "free" }

\* the next Transcoder object to be constructed
NewJob(T) == CHOOSE j \in FreeJobs(T) : \A k \in FreeJobs(T) : j <= k

\* Gnomecast.unselect_file
unselect_file(g) == [g EXCEPT !.fn = NoPath, !.transcoder = NoJob]

\* Gnomecast.select_file of a file that exists; the idle callback that
\* starts the update_transcoders thread is counted by the caller
select_file(g, fn_) == [unselect_file(g) EXCEPT !.fn = fn_]

RECURSIVE prep_loop(_, _, _, _, _)
\* Gnomecast.prep_next_transcode: the loop from row i on, with local
\* transcode_next, over objects T and store S; ok is FALSE when the run
\* would construct more than MaxJobs objects
prep_loop(i, transcode_next, T, S, g) ==
  IF i > Len(S) THEN [T |-> T, S |-> S, ok |-> TRUE]
  ELSE
    LET create == transcode_next /\ S[i].transcoder = NoJob IN
    IF create /\ FreeJobs(T) = {} THEN [T |-> T, S |-> S, ok |-> FALSE]
    ELSE
      LET j == NewJob(T)
          fmd == Probe(S[i].fn)
          T1 == IF create
                THEN [T EXCEPT ![j] =
                        Transcoder(j, g.cast, fmd, fmd.video_streams[1],
                                   IF Len(fmd.audio_streams) > 0
                                   THEN fmd.audio_streams[1] ELSE None)]
                ELSE T
          S1 == IF create THEN [S EXCEPT ![i].transcoder = j] ELSE S
          transcoder == S1[i].transcoder
          next1 == IF create THEN FALSE ELSE transcode_next
          next2 == IF /\ g.cast # None
                      /\ g.fn # NoPath
                      /\ g.fn = S[i].fn
                      /\ transcoder # NoJob
                      /\ T1[transcoder].done
                   THEN TRUE ELSE next1
      IN prep_loop(i + 1, next2, T1, S1, g)

prep_next_transcode(T, S, g) == prep_loop(1, FALSE, T, S, g)

\* Gnomecast.queue_files; files is the list handed in
QueueFiles(files) ==
  LET existing_files == { files_store[i].fn : i \in 1 .. Len(files_store) }
      new == SelectSeq(files, LAMBDA f : f \notin existing_files)
      rows == [i \in 1 .. Len(new) |-> Row(new[i], NoJob)]
  IN /\ Len(new) > 0
     /\ Len(files_store) + Len(new) <= MaxRows
     /\ ops > 0
     /\ ops' = ops - 1
     /\ files_store' = files_store \o rows
     /\ IF gnomecast.fn = NoPath
        THEN /\ threads < MaxThreads
             /\ gnomecast' = select_file(gnomecast, new[1])
             /\ threads' = threads + 1
        ELSE UNCHANGED <<gnomecast, threads>>
     /\ UNCHANGED <<idle, worker, requests>>
     /\ Collect(transcoders, disk)

\* Gnomecast.on_files_view_row_activated on row i
RowActivated(i) ==
  /\ ops > 0
  /\ ops' = ops - 1
  /\ i \in 1 .. Len(files_store)
  /\ gnomecast' = [unselect_file(gnomecast) EXCEPT
                     !.fn = files_store[i].fn,
                     !.transcoder = files_store[i].transcoder]
  /\ UNCHANGED <<files_store, idle, threads, worker, requests>>
  /\ Collect(transcoders, disk)

\* Gnomecast.remove_files with row i selected; the update_transcoders
\* thread is not iterating at that row (GTK leaves the use of an iterator
\* to a removed row undefined)
RemoveFiles(i) ==
  /\ ops > 0
  /\ ops' = ops - 1
  /\ i \in 1 .. Len(files_store)
  /\ ~ (worker.pc \in {"loop", "ctor"} /\ worker.row = i)
  /\ files_store' = SubSeq(files_store, 1, i - 1)
                    \o SubSeq(files_store, i + 1, Len(files_store))
  /\ gnomecast' = IF gnomecast.fn = files_store[i].fn
                  THEN unselect_file(gnomecast) ELSE gnomecast
  /\ worker' = IF worker.row > i THEN [worker EXCEPT !.row = @ - 1]
               ELSE worker
  /\ UNCHANGED <<idle, threads, requests>>
  /\ LET transcoder == files_store[i].transcoder IN
       IF transcoder # NoJob
       THEN Collect([transcoders EXCEPT ![transcoder] = destroy(@)],
                    destroy_files(transcoders[transcoder], disk))
       ELSE Collect(transcoders, disk)

\* ------------------------------------------------- ScreenSaverInhibitor
\* the cookie the service gives to a new inhibition
NewCookie(g) == CHOOSE c \in 1 .. MaxCookies : c \notin g.inhibited

\* ScreenSaverInhibitor.start
inhibitor_start(g) ==
  IF ~ g.screen_saver_inhibitor.interface THEN g
  ELSE [g EXCEPT !.screen_saver_inhibitor.inhibit_cookie = NewCookie(g),
                 !.inhibited = @ \cup {NewCookie(g)}]

\* ScreenSaverInhibitor.stop
inhibitor_stop(g) ==
  IF \/ ~ g.screen_saver_inhibitor.interface
     \/ g.screen_saver_inhibitor.inhibit_cookie = 0
  THEN g
  ELSE [g EXCEPT !.screen_saver_inhibitor.inhibit_cookie = 0,
                 !.inhibited = @ \ {g.screen_saver_inhibitor.inhibit_cookie}]

\* Gnomecast.quit: destroy() on the Transcoder of every row, then
\* Gtk.main_quit(); no handler runs after it
Quit ==
  /\ ops > 0
  /\ ops' = 0
  /\ ~ gnomecast.quit
  /\ gnomecast' = [inhibitor_stop(gnomecast) EXCEPT !.quit = TRUE]
  /\ UNCHANGED <<files_store, idle, threads, worker, requests>>
  /\ Collect([j \in Jobs |-> IF j \in RowJobs(files_store)
                             THEN destroy(transcoders[j])
                             ELSE transcoders[j]],
             disk \ { transcoders[j].trans_fn : j \in RowJobs(files_store) })

\* Gnomecast.select_cast; cast_ is a receiver or None
SelectCast(cast_) ==
  /\ ops > 0
  /\ ops' = ops - 1
  /\ threads < MaxThreads
  /\ gnomecast' = [gnomecast EXCEPT !.cast = cast_,
                                    !.last_known_player_state = "None"]
  /\ threads' = threads + 1
  /\ UNCHANGED <<transcoders, disk, files_store, idle, worker, requests>>

\* the entries of the stream combo for the selected file
StreamChoices ==
  IF gnomecast.fn = NoPath THEN {}
  ELSE LET fmd == Probe(gnomecast.fn) IN
       { <<fmd.video_streams[v], fmd.audio_streams[a]>> :
           v \in 1 .. Len(fmd.video_streams),
           a \in 1 .. Len(fmd.audio_streams) }

\* Gnomecast.on_audio_combo_changed
AudioComboChanged(choice) ==
  /\ ops > 0
  /\ ops' = ops - 1
  /\ threads < MaxThreads
  /\ choice \in StreamChoices
  /\ gnomecast' = [gnomecast EXCEPT !.video_stream = choice[1],
                                    !.audio_stream = choice[2]]
  /\ threads' = threads + 1
  /\ UNCHANGED <<transcoders, disk, files_store, idle, worker, requests>>

\* Gnomecast.play_clicked on the main thread, in the branch that starts
\* playback (player IDLE or UNKNOWN, or another file than the last played)
PlayClicked ==
  /\ ops > 0
  /\ ops' = ops - 1
  /\ gnomecast.cast # None
  /\ gnomecast.fn # NoPath
  /\ LET r == prep_next_transcode(transcoders, files_store, gnomecast) IN
       /\ r.ok
       /\ transcoders' = r.T
       /\ files_store' = r.S
  /\ UNCHANGED <<disk, gnomecast, idle, threads, worker, requests>>

\* Gnomecast.update_status(did_transcode=True), queued by a done callback
UpdateStatus ==
  /\ UNCHANGED ops
  /\ idle > 0
  /\ idle' = idle - 1
  /\ LET r == prep_next_transcode(transcoders, files_store, gnomecast) IN
       /\ r.ok
       /\ transcoders' = r.T
       /\ files_store' = r.S
  /\ UNCHANGED <<disk, gnomecast, threads, worker, requests>>

RECURSIVE check_loop(_, _, _, _)
\* Gnomecast.check_for_next_in_queue: the loop from row i on with local
\* next; n counts the select_file calls made
check_loop(i, next, g, n) ==
  IF i > Len(files_store) THEN [g |-> g, n |-> n]
  ELSE
    LET fn_ == files_store[i].fn
        g1 == IF next
              THEN [select_file(g, fn_) EXCEPT !.autoplay = TRUE] ELSE g
        n1 == IF next THEN n + 1 ELSE n
        next1 == IF g1.cast # None /\ g1.fn # NoPath /\ g1.fn = fn_
                 THEN TRUE ELSE FALSE
    IN check_loop(i + 1, next1, g1, n1)

\* monitor_cast: the player went from PLAYING to IDLE
CheckForNextInQueue ==
  LET r == check_loop(1, FALSE, gnomecast, 0) IN
    /\ gnomecast.cast # None
    /\ r.n > 0
    /\ ops > 0
    /\ ops' = ops - 1
    /\ threads + r.n <= MaxThreads
    /\ gnomecast' = r.g
    /\ threads' = threads + r.n
    /\ UNCHANGED <<files_store, idle, worker, requests>>
    /\ Collect(transcoders, disk)

\* queues of up to MaxQueue files without repetition
Queues ==
  { q \in UNION { [1 .. n -> {MovieMp4, ClipAvi, SongMp3}] : n \in 1 .. MaxQueue } :
      \A i, k \in 1 .. Len(q) : i # k => q[i] # q[k] }

\* the application with files queued, one of them or none selected and a
\* receiver or none selected, while nothing is transcoded
ScanInit ==
  /\ transcoders = [j \in Jobs |-> NoTranscoder]
  /\ disk = {}
  /\ \E q \in Queues :
       /\ files_store = [i \in 1 .. Len(q) |-> Row(q[i], NoJob)]
       /\ \E cast_ \in Casts \cup {None},
             fn_ \in {NoPath} \cup { q[i] : i \in 1 .. Len(q) } :
            gnomecast = [GnomecastInit EXCEPT !.cast = cast_, !.fn = fn_]
  /\ idle = 0
  /\ threads = 0
  /\ worker = NoWorker
  /\ requests = [r \in Readers |-> NoRequest]
  /\ ops = ScanOps

\* monitor_cast: the player went from PLAYING to IDLE; every select_file
\* of the scan queues one start of update_transcoders
ScanQueue ==
  LET r == check_loop(1, FALSE, gnomecast, 0) IN
    /\ gnomecast.cast # None
    /\ ops > 0
    /\ ops' = ops - 1
    /\ gnomecast' = r.g
    /\ threads' = threads + r.n
    /\ UNCHANGED <<transcoders, disk, files_store, idle, worker, requests>>

ScanNext ==
  \/ ScanQueue
  \/ \E i \in 1 .. MaxQueue : RowActivated(i)

ScanSpec == ScanInit /\ [][ScanNext]_vars

\* the states of the receiver's player
PlayerStates == {"UNKNOWN", "IDLE", "BUFFERING", "PLAYING"}

\* the receiver's player changes its state
PlayerState(state) ==
  /\ UNCHANGED ops
  /\ gnomecast.cast # None
  /\ state # gnomecast.player_state
  /\ gnomecast' = [gnomecast EXCEPT !.player_state = state]
  /\ UNCHANGED <<transcoders, disk, files_store, idle, threads, worker,
                 requests>>

\* monitor_cast, lines 444-465: one turn of the loop that finds the
\* player in another state than the last known one
MonitorCast ==
  LET scan == gnomecast.player_state = "IDLE"
              /\ gnomecast.last_known_player_state = "PLAYING"
      r == IF scan THEN check_loop(1, FALSE, gnomecast, 0)
           ELSE [g |-> gnomecast, n |-> 0]
      g == IF gnomecast.player_state = "PLAYING"
           THEN inhibitor_start(r.g) ELSE inhibitor_stop(r.g)
  IN /\ UNCHANGED ops
     /\ gnomecast.cast # None
     /\ gnomecast.player_state # gnomecast.last_known_player_state
     /\ gnomecast.player_state = "PLAYING"
          => Cardinality(gnomecast.inhibited) < MaxCookies
     /\ threads + r.n <= MaxThreads
     /\ gnomecast' = [g EXCEPT
                        !.last_known_player_state = gnomecast.player_state]
     /\ threads' = threads + r.n
     /\ UNCHANGED <<files_store, idle, worker, requests>>
     /\ Collect(transcoders, disk)

\* the application after construction, with or without a screen saver
\* interface on the bus
SaverInit ==
  /\ transcoders = [j \in Jobs |-> NoTranscoder]
  /\ disk = {}
  /\ \E interface \in BOOLEAN :
       gnomecast = [GnomecastInit EXCEPT
                      !.screen_saver_inhibitor.interface = interface]
  /\ files_store = <<>>
  /\ idle = 0
  /\ threads = 0
  /\ worker = NoWorker
  /\ requests = [r \in Readers |-> NoRequest]
  /\ ops = SaverOps

WorkerAcquireNoWaiter ==
  /\ UNCHANGED ops
  /\ worker.pc = "idle"
  /\ threads > 0
  /\ \A r \in Readers : requests[r].pc \notin {"wait_mp4", "wait_done"}
  /\ threads' = threads - 1
  /\ worker' = [NoWorker EXCEPT
                  !.pc = IF gnomecast.cast # None /\ gnomecast.fn # NoPath
                         THEN "loop" ELSE "end"]
  /\ UNCHANGED <<transcoders, disk, app, idle, requests>>

\* ------------------------------------- Gnomecast: update_transcoders thread
\* `with self.update_transcoders_lock:` and the test of line 1108
WorkerAcquire ==
  /\ UNCHANGED ops
  /\ worker.pc = "idle"
  /\ threads > 0
  /\ threads' = threads - 1
  /\ worker' = [NoWorker EXCEPT
                  !.pc = IF gnomecast.cast # None /\ gnomecast.fn # NoPath
                         THEN "loop" ELSE "end"]
  /\ UNCHANGED <<transcoders, disk, app, idle, requests>>

needs_transcoder_always(g, T, transcoder) == TRUE

\* the test of lines 1120-1125 on the row's object, after the streams have
\* been given their defaults
needs_transcoder(g, T, transcoder) ==
  \/ transcoder = NoJob
  \/ g.cast # T[transcoder].cast
  \/ g.fn # T[transcoder].source_fn
  \/ g.audio_stream # T[transcoder].audio_stream

\* rows after the row the loop visited last whose path is self.fn
WorkerRows ==
  { i \in worker.row + 1 .. Len(files_store) :
      files_store[i].fn = gnomecast.fn }

\* the loop of lines 1110-1125 up to the next row of self.fn, and for a
\* row that needs a new object lines 1126-1135 and 207-216: the arguments
\* are evaluated, the object is allocated, the previous one is destroyed;
\* after the last row lines 1138-1140: play_clicked runs on this thread and
\* starts playback or not as the player's state has it
WorkerRow ==
  /\ UNCHANGED ops
  /\ worker.pc = "loop"
  /\ IF WorkerRows = {}
     THEN /\ worker' = [NoWorker EXCEPT !.pc = "end"]
          /\ UNCHANGED disk
          /\ IF gnomecast.autoplay
             THEN /\ gnomecast' = [gnomecast EXCEPT !.autoplay = FALSE]
                  /\ \/ UNCHANGED <<transcoders, files_store>>
                     \/ /\ gnomecast.cast # None
                        /\ gnomecast.fn # NoPath
                        /\ LET r == prep_next_transcode(transcoders,
                                                        files_store,
                                                        gnomecast) IN
                             /\ r.ok
                             /\ transcoders' = r.T
                             /\ files_store' = r.S
             ELSE UNCHANGED <<transcoders, gnomecast, files_store>>
     ELSE
       LET i == CHOOSE k \in WorkerRows : \A m \in WorkerRows : k <= m
           transcoder == files_store[i].transcoder
           fmd == Probe(files_store[i].fn)
           g == [gnomecast EXCEPT
                   !.video_stream =
                      IF @ = None THEN fmd.video_streams[1] ELSE @,
                   !.audio_stream =
                      IF @ = None /\ Len(fmd.audio_streams) > 0
                      THEN fmd.audio_streams[1] ELSE @]
           replace == needs_transcoder(g, transcoders, transcoder)
       IN /\ gnomecast' = g
          /\ UNCHANGED files_store
          /\ IF replace
             THEN /\ FreeJobs(transcoders) # {}
                  /\ LET j == NewJob(transcoders)
                         T == [transcoders EXCEPT ![j] =
                                 [NoTranscoder EXCEPT
                                    !.state = "init",
                                    !.cast = g.cast,
                                    !.source_fn = fmd.fn,
                                    !.video_stream = g.video_stream,
                                    !.audio_stream = g.audio_stream]]
                     IN /\ transcoders' =
                             IF transcoder # NoJob
                             THEN [T EXCEPT ![transcoder] = destroy(@)]
                             ELSE T
                        /\ disk' =
                             IF transcoder # NoJob
                             THEN destroy_files(transcoders[transcoder], disk)
                             ELSE disk
                        /\ worker' = [pc |-> "ctor", row |-> i,
                                      transcoder |-> j, prev |-> transcoder]
             ELSE /\ worker' = [worker EXCEPT !.row = i]
                  /\ UNCHANGED <<transcoders, disk>>
  /\ UNCHANGED <<idle, threads, requests>>

\* lines 218-285 of the constructor, then `self.transcoder = ...` and
\* `row[7] = self.transcoder`; with self.cast None when the arguments were
\* evaluated the constructor raises and the thread ends, releasing the lock
WorkerConstruct ==
  /\ UNCHANGED ops
  /\ worker.pc = "ctor"
  /\ LET j == worker.transcoder
         t == transcoders[j]
     IN IF t.cast = None
        THEN /\ worker' = NoWorker
             /\ UNCHANGED <<gnomecast, files_store, idle, threads, requests>>
             /\ Collect([transcoders EXCEPT ![j] = Collected], disk)
        ELSE /\ gnomecast' = [gnomecast EXCEPT !.transcoder = j]
             /\ files_store' = [files_store EXCEPT ![worker.row].transcoder = j]
             /\ worker' = [worker EXCEPT !.pc = "loop", !.transcoder = NoJob,
                                         !.prev = NoJob]
             /\ UNCHANGED <<idle, threads, requests>>
             /\ Collect([transcoders EXCEPT ![j] =
                           Transcoder(j, t.cast, Probe(t.source_fn),
                                      t.video_stream, t.audio_stream)],
                        disk)

\* lines 1141-1147, and the lock is released
WorkerEnd ==
  /\ UNCHANGED ops
  /\ worker.pc = "end"
  /\ worker' = NoWorker
  /\ UNCHANGED <<gnomecast, idle, threads, requests>>
  /\ IF gnomecast.cast = None
     THEN /\ files_store' =
               [i \in 1 .. Len(files_store) |->
                  [files_store[i] EXCEPT !.transcoder = NoJob]]
          /\ Collect([j \in Jobs |-> IF j \in RowJobs(files_store)
                                     THEN destroy(transcoders[j])
                                     ELSE transcoders[j]],
                     disk \ { transcoders[j].trans_fn :
                                j \in RowJobs(files_store) })
     ELSE UNCHANGED <<transcoders, disk, files_store>>

\* ------------------------------------------------------ webserver: video()
waiting_for_bytes(t, pc, offset) ==
  offset > t.progress_bytes + BUFFER

\* the test of the while loop a request waits in
waiting(t, pc, offset) ==
  IF pc = "wait_mp4"
  THEN offset > t.progress_bytes + BUFFER
  ELSE ~ t.done

static_file_selected(T, transcoder) ==
  IF gnomecast.transcoder = NoJob THEN NoPath ELSE Fn(T[gnomecast.transcoder])

\* webserver.py line 47: the path bottle.static_file(transcoder.fn, root="/")
\* is given, transcoder being the handler's local variable
static_file(T, transcoder) == Fn(T[transcoder])

wait_for_byte_no_early_return(t, offset) ==
  IF Extension(t.source_fn) = "mp4"
  THEN (IF waiting(t, "wait_mp4", offset) THEN "wait_mp4" ELSE "serve")
  ELSE (IF waiting(t, "wait_done", offset) THEN "wait_done" ELSE "serve")

\* Transcoder.wait_for_byte, lines 313-321, up to the first sleep: where
\* the caller is then
wait_for_byte(t, offset) ==
  IF t.done THEN "serve"
  ELSE IF Extension(t.source_fn) = "mp4"
       THEN (IF waiting(t, "wait_mp4", offset) THEN "wait_mp4" ELSE "serve")
       ELSE "wait_done"

\* lines 38-46: the range is parsed, get_transcoder() is called and
\* wait_for_byte entered; with no transcoder the handler raises
Request(r, offset) ==
  /\ UNCHANGED ops
  /\ requests[r].pc = "idle"
  /\ gnomecast.transcoder # NoJob
  /\ requests' =
       [requests EXCEPT ![r] =
          [pc |-> wait_for_byte(transcoders[gnomecast.transcoder], offset),
           transcoder |-> gnomecast.transcoder,
           offset |-> offset,
           entered_destroyed |->
             transcoders[gnomecast.transcoder].destroyed,
           entered_done |-> transcoders[gnomecast.transcoder].done,
           abandoned |-> FALSE,
           fn |-> IF wait_for_byte(transcoders[gnomecast.transcoder],
                                   offset) = "serve"
                  THEN static_file(transcoders, gnomecast.transcoder)
                  ELSE NoPath]]
  /\ UNCHANGED <<transcoders, disk, app, idle, threads, worker>>

\* lines 316-323: after a sleep the loop test is evaluated and found false
WaitReturn(r) ==
  /\ UNCHANGED ops
  /\ requests[r].pc \in {"wait_mp4", "wait_done"}
  /\ ~ waiting(transcoders[requests[r].transcoder], requests[r].pc,
               requests[r].offset)
  /\ requests' = [requests EXCEPT
                   ![r].pc = "serve",
                   ![r].fn = static_file(transcoders, requests[r].transcoder)]
  /\ UNCHANGED <<transcoders, disk, app, idle, threads, worker>>

ServeAndDestroy(r) ==
  /\ UNCHANGED ops
  /\ requests[r].pc = "serve"
  /\ requests' = [requests EXCEPT ![r] = NoRequest]
  /\ UNCHANGED <<app, idle, threads, worker>>
  /\ transcoders' = [transcoders EXCEPT ![requests[r].transcoder] = destroy(@)]
  /\ disk' = destroy_files(transcoders[requests[r].transcoder], disk)

\* lines 47-52: static_file(transcoder.fn) and the response
Serve(r) ==
  /\ UNCHANGED ops
  /\ requests[r].pc = "serve"
  /\ requests' = [requests EXCEPT ![r] = NoRequest]
  /\ UNCHANGED <<app, idle, threads, worker>>
  /\ Collect(transcoders, disk)

\* ------------------------------------------------------ application model
WorkerNext ==
  \/ WorkerAcquire
  \/ WorkerRow
  \/ WorkerConstruct
  \/ WorkerEnd

\* line 44-45 with self.transcoder None (or line 39 without a Range
\* header): the handler raises before it has a Transcoder, and the server
\* answers with an error
RequestFails(r) ==
  /\ UNCHANGED ops
  /\ requests[r].pc = "idle"
  /\ gnomecast.transcoder = NoJob
  /\ requests' = [requests EXCEPT ![r].pc = "error"]
  /\ UNCHANGED <<transcoders, disk, app, idle, threads, worker>>

\* the error response has been written and the handler thread is at rest
ErrorResponse(r) ==
  /\ UNCHANGED ops
  /\ requests[r].pc = "error"
  /\ requests' = [requests EXCEPT ![r] = NoRequest]
  /\ UNCHANGED <<transcoders, disk, app, idle, threads, worker>>

\* the player closes the connection of a request that waits; the handler
\* thread learns of it only when it writes to the socket
Abandon(r) ==
  /\ UNCHANGED ops
  /\ requests[r].pc \in {"wait_mp4", "wait_done"}
  /\ ~ requests[r].abandoned
  /\ requests' = [requests EXCEPT ![r].abandoned = TRUE]
  /\ UNCHANGED <<transcoders, disk, app, idle, threads, worker>>

\* the requests of the handler threads R, whose players stay connected
ReaderSteps(R) ==
  \/ \E r \in R, offset \in Offsets : Request(r, offset)
  \/ \E r \in R : WaitReturn(r)
  \/ \E r \in R : Serve(r)

ReaderNext ==
  \/ ReaderSteps(Readers)
  \/ \E r \in Readers : RequestFails(r)
  \/ \E r \in Readers : ErrorResponse(r)
  \/ \E r \in Readers : Abandon(r)

\* what the user and the player do to the whole application
UserNext ==
  \/ \E f \in Files : QueueFiles(<<f>>)
  \/ \E f, g \in Files : QueueFiles(<<f, g>>)
  \/ \E i \in 1 .. MaxRows : RowActivated(i)
  \/ \E i \in 1 .. MaxRows : RemoveFiles(i)
  \/ \E c \in Casts \cup {None} : SelectCast(c)
  \/ \E choice \in StreamChoices : AudioComboChanged(choice)
  \/ PlayClicked
  \/ CheckForNextInQueue

\* the whole application
Next ==
  \/ UserNext
  \/ UpdateStatus
  \/ WorkerNext
  \/ EncoderNext
  \/ ProgressNext(AppSizeToks, AppTimeToks)
  \/ ReaderNext

Spec == Init /\ [][Next]_vars

\* one file is queued, transcoded for the receiver picked and streamed
StreamUser ==
  \/ \E f \in Files : QueueFiles(<<f>>)
  \/ \E i \in 1 .. MaxRows : RemoveFiles(i)
  \/ \E c \in Casts \cup {None} : SelectCast(c)

StreamNext ==
  \/ StreamUser
  \/ WorkerNext
  \/ EncoderNext
  \/ ProgressNext(AppSizeToks, AppTimeToks)
  \/ ReaderSteps({1})

StreamSpec == Start(StreamOps) /\ [][StreamNext]_vars

\* two files are queued, rows, receivers and streams are selected
SelectUser ==
  \/ QueueFiles(<<MovieMp4, ClipAvi>>)
  \/ \E i \in 1 .. MaxRows : RowActivated(i)
  \/ \E c \in Casts : SelectCast(c)
  \/ \E choice \in StreamChoices : AudioComboChanged(choice)

SelectNext ==
  \/ SelectUser
  \/ WorkerNext
  \/ EncoderNext

SelectSpec == Start(SelectOps) /\ [][SelectNext]_vars

\* a Chromecast is selected and three files are queued, the first of them
\* selected: select_file has started update_transcoders
PrepInit ==
  /\ transcoders = [j \in Jobs |-> NoTranscoder]
  /\ disk = {}
  /\ gnomecast = [GnomecastInit EXCEPT !.cast = ChromecastCast,
                                       !.fn = ClipAvi]
  /\ files_store = <<Row(ClipAvi, NoJob), Row(MovieMp4, NoJob),
                     Row(SongMp3, NoJob)>>
  /\ idle = 0
  /\ threads = 1
  /\ worker = NoWorker
  /\ requests = [r \in Readers |-> NoRequest]
  /\ ops = PrepOps

\* the jobs of the queue are made and run, and their done callbacks run
\* update_status; the user may select a receiver
PrepNext ==
  \/ \E c \in Casts : SelectCast(c)
  \/ UpdateStatus
  \/ WorkerNext
  \/ EncoderNext

PrepSpec == PrepInit /\ [][PrepNext]_vars

\* files are queued, one or two in a call, and rows are removed
DupUser ==
  \/ \E f \in Files : QueueFiles(<<f>>)
  \/ \E f, g \in Files : QueueFiles(<<f, g>>)
  \/ \E i \in 1 .. MaxRows : RemoveFiles(i)
  \/ SelectCast(ChromecastCast)

DupNext ==
  \/ DupUser
  \/ WorkerNext
  \/ EncoderNext

DupSpec == Start(DupOps) /\ [][DupNext]_vars

\* ------------------------------------------------------- utils.throttle
\* wrapper(*args): lines 41-46
wrapper(th, args) ==
  IF th.timer
  THEN [th EXCEPT !.latest_args = args]
  ELSE [th EXCEPT !.latest_args = args, !.timer = TRUE,
                  !.waiting = @ + 1]

\* run_f, line 38: f(*latest_args) on the Timer thread
run_f_call(th) ==
  [th EXCEPT !.ran = th.latest_args, !.waiting = @ - 1, !.running = @ + 1]

\* run_f, line 39: timer = None, and the thread ends
run_f_reset(th) == [th EXCEPT !.timer = FALSE, !.running = @ - 1]

\* the volume button is moved to a volume
Volumes == {1, 2, 3}

\* Gnomecast.volume_moved as decorated: the wrapper on the main thread
VolumeMoved(volume) ==
  /\ ops > 0
  /\ ops' = ops - 1
  /\ gnomecast' = [gnomecast EXCEPT !.volume_moved = wrapper(@, volume)]
  /\ UNCHANGED <<transcoders, disk, files_store, idle, threads, worker,
                 requests>>

\* the Timer thread has slept `seconds` and calls f with the latest
\* arguments
TimerRun ==
  /\ UNCHANGED ops
  /\ gnomecast.volume_moved.waiting > 0
  /\ gnomecast' = [gnomecast EXCEPT !.volume_moved = run_f_call(@)]
  /\ UNCHANGED <<transcoders, disk, files_store, idle, threads, worker,
                 requests>>

\* f has returned and the Timer thread sets timer to None
TimerReset ==
  /\ UNCHANGED ops
  /\ gnomecast.volume_moved.running > 0
  /\ gnomecast' = [gnomecast EXCEPT !.volume_moved = run_f_reset(@)]
  /\ UNCHANGED <<transcoders, disk, files_store, idle, threads, worker,
                 requests>>

ThrottleNext ==
  \/ \E volume \in Volumes : VolumeMoved(volume)
  \/ TimerRun
  \/ TimerReset

ThrottleSpec == Start(ThrottleOps) /\ [][ThrottleNext]_vars

\* receivers are selected while the player plays, stops and buffers, and
\* the window is closed
SaverNext ==
  \/ \E c \in Casts \cup {None} : SelectCast(c)
  \/ \E state \in PlayerStates : PlayerState(state)
  \/ MonitorCast
  \/ Quit
  \/ WorkerAcquire
  \/ WorkerEnd

SaverSpec == SaverInit /\ [][SaverNext]_vars

\* a file is queued and receivers are selected while two players request
\* the media, close their connections, or ask when there is nothing to play
ReaderUser ==
  \/ QueueFiles(<<MovieMp4>>)
  \/ \E c \in Casts : SelectCast(c)

ReaderSpecNext ==
  \/ ReaderUser
  \/ WorkerNext
  \/ EncoderNext
  \/ ProgressNext(AppSizeToks, AppTimeToks)
  \/ ReaderNext

ReaderSpec == Start(ReaderOps) /\ [][ReaderSpecNext]_vars

\* two files are queued for one receiver and played in turn: the queue and
\* its jobs, without progress reports and without requests
QueueUser ==
  \/ QueueFiles(<<MovieMp4, ClipAvi>>)
  \/ \E i \in 1 .. MaxRows : RowActivated(i)
  \/ SelectCast(ChromecastCast)
  \/ PlayClicked

QueueNext ==
  \/ QueueUser
  \/ UpdateStatus
  \/ WorkerNext
  \/ EncoderNext

QueueSpec == Start(QueueOps) /\ [][QueueNext]_vars

\* the queue played as in QueueSpec, rows removed, and the window closed
QuitUser ==
  \/ QueueUser
  \/ \E i \in 1 .. MaxRows : RemoveFiles(i)
  \/ Quit

QuitNext ==
  \/ QuitUser
  \/ UpdateStatus
  \/ WorkerNext
  \/ EncoderNext

QuitSpec == Start(QuitOps) /\ [][QuitNext]_vars

\* the application after construction, with the user's media files on the
\* disk: the queue and its jobs up to quit
SourceFiles == {SongMp3, ClipAvi}

SourceStart ==
  /\ transcoders = [j \in Jobs |-> NoTranscoder]
  /\ disk = SourceFiles
  /\ gnomecast = GnomecastInit
  /\ files_store = <<>>
  /\ idle = 0
  /\ threads = 0
  /\ worker = NoWorker
  /\ requests = [r \in Readers |-> NoRequest]
  /\ ops = QuitOps

\* a file played as it is and one that needs transcoding
SourceUser ==
  \/ QueueFiles(<<SongMp3, ClipAvi>>)
  \/ SelectCast(ChromecastCast)
  \/ PlayClicked
  \/ \E i \in 1 .. MaxRows : RemoveFiles(i)
  \/ Quit

SourceNext ==
  \/ SourceUser
  \/ UpdateStatus
  \/ WorkerNext
  \/ EncoderNext

SourceSpec == SourceStart /\ [][SourceNext]_vars

\* a file that needs transcoding or one that is played as it is, and
\* receivers selected one after the other: jobs replaced by jobs, while a
\* player requests the media
ReplaceUser ==
  \/ \E f \in {ClipAvi, SongMp3} : QueueFiles(<<f>>)
  \/ \E c \in Casts : SelectCast(c)

ReplaceNext ==
  \/ ReplaceUser
  \/ WorkerNext
  \/ EncoderNext
  \/ ReaderSteps({1})

ReplaceSpec == Start(ReplaceOps) /\ [][ReplaceNext]_vars

\* ------------------------------------------------------- temporary names
\* the names mkstemp draws from, and those it may return with the files D
\* in the directory: any name no file has
TempNames == { TempName(n) : n \in 1 .. MaxNames }
mkstemp(D) == TempNames \ D

\* Transcoder(...) called for row i, which has no Transcoder, and row[7]
\* set to the new object; lines 243-248: mkstemp creates a file under a
\* name no file has, and os.remove removes that file at once
TempConstruct(i) ==
  /\ UNCHANGED ops
  /\ i \in 1 .. Len(files_store)
  /\ files_store[i].transcoder = NoJob
  /\ FreeJobs(transcoders) # {}
  /\ \E cast_ \in Casts, name \in mkstemp(disk) :
       LET j == NewJob(transcoders)
           fmd == Probe(files_store[i].fn)
           t == Transcoder(j, cast_, fmd, fmd.video_streams[1],
                           fmd.audio_streams[1])
       IN /\ transcoders' =
               [transcoders EXCEPT ![j] =
                  IF t.transcode
                  THEN [t EXCEPT !.trans_fn = name,
                                 !.cmd = [@ EXCEPT !.out = name]]
                  ELSE t]
          /\ files_store' = [files_store EXCEPT ![i].transcoder = j]
  /\ UNCHANGED <<disk, gnomecast, idle, threads, worker, requests>>

\* two files are queued, Transcoders are constructed for their rows, rows
\* are removed, and the encoders run
TempUser ==
  \/ QueueFiles(<<MovieMp4, ClipAvi>>)
  \/ \E i \in 1 .. MaxRows : RemoveFiles(i)

TempNext ==
  \/ TempUser
  \/ \E i \in 1 .. MaxRows : TempConstruct(i)
  \/ EncoderNext

TempSpec == Start(TempOps) /\ [][TempNext]_vars

\* ------------------------------------------------ delete_old_transcodes
\* a file of a temporary directory: its directory and its name, a str
TmpFile(dir, name) == [dir |-> dir, name |-> name]

\* the answer of os.kill(pid, 0): process 12 runs as the user, process 13
\* runs as another user, and there is no other process
os_kill(pid) ==
  CASE pid = 12 -> "ok" [] pid = 13 -> "EPERM" [] OTHER -> "ESRCH"
RunningPids == {12, 13}

\* utils.is_pid_running: PermissionError is an OSError
is_pid_running(pid) == os_kill(pid) = "ok"

\* fn.startswith(prefix)
startswith(s, prefix) ==
  Len(s) >= Len(prefix) /\ SubSeq(s, 1, Len(prefix)) = prefix

Str_gnomecast_ == <<"g", "n", "o", "m", "e", "c", "a", "s", "t", "_">>
Str_gnomecast_pid == <<"g", "n", "o", "m", "e", "c", "a", "s", "t", "_", "p", "i", "d">>

\* re.search(r"gnomecast_pid(\d+)_", s) and int(match.group(1)): the first
\* place where the literal, digits and "_" follow each other
re_search_pid(s) ==
  LET n == Len(Str_gnomecast_pid)
      ends(i) == { m \in i + n .. Len(s) - 1 :
                     /\ IsDigits(SubSeq(s, i + n, m))
                     /\ s[m + 1] = "_" }
      at == { i \in 1 .. Len(s) - n :
                SubSeq(s, i, i + n - 1) = Str_gnomecast_pid /\ ends(i) # {} }
  IN IF at = {} THEN ValueError
     ELSE LET i == CHOOSE k \in at : \A m \in at : k <= m
          IN Value(digits_value(SubSeq(s, i + n, CHOOSE m \in ends(i) : TRUE)))

\* os.remove(fn) raises PermissionError on the file of another user in a
\* directory with the sticky bit, as /tmp and /var/tmp are
remove_raises(f) ==
  LET match == re_search_pid(f.name)
  IN match.ok /\ os_kill(match.v) = "EPERM"

RECURSIVE sweep_dir(_, _)
\* the inner loop of delete_old_transcodes over the listing of a directory:
\* the files left, and whether os.remove raised
sweep_dir(D, listing) ==
  IF listing = <<>> THEN [files |-> D, raised |-> FALSE]
  ELSE LET f == Head(listing)
           match == re_search_pid(f.name)
           remove == /\ startswith(f.name, Str_gnomecast_)
                     /\ (match.ok => ~ is_pid_running(match.v))
       IN IF ~ remove THEN sweep_dir(D, Tail(listing))
          ELSE IF remove_raises(f) THEN [files |-> D, raised |-> TRUE]
          ELSE sweep_dir(D \ {f}, Tail(listing))

\* os.listdir(dir): the files of the directory in any order
listdir(D, dir) ==
  LET S == { f \in D : f.dir = dir }
  IN { l \in [1 .. Cardinality(S) -> S] :
         \A i, k \in 1 .. Cardinality(S) : i # k => l[i] # l[k] }

\* delete_old_transcodes: /tmp, then /var/tmp unless an exception has
\* ended the function
delete_old_transcodes(D, tmp, var_tmp) ==
  LET first == sweep_dir(D, tmp)
  IN IF first.raised THEN first ELSE sweep_dir(first.files, var_tmp)

\* names of files: gnomecast_pid<pid>_<c>, gnomecast_<c>, and another
PidName(pid, c) == Str_gnomecast_pid \o py_str(pid) \o <<"_", c>>
OldName(c) == Str_gnomecast_ \o <<c>>
OtherName == <<"n", "o", "t", "e", "s">>

SweepPids == {11, 12, 13}
SweepFiles ==
  { TmpFile("/tmp", PidName(pid, "a")) : pid \in SweepPids }
  \cup { TmpFile("/var/tmp", PidName(pid, "b")) : pid \in {11, 12} }
  \cup { TmpFile("/tmp", OldName("t")), TmpFile("/tmp", OtherName) }

\* main() at its start, with any of the files left by earlier runs
SweepInit ==
  /\ transcoders = [j \in Jobs |-> NoTranscoder]
  /\ disk \in SUBSET SweepFiles
  /\ gnomecast = GnomecastInit
  /\ files_store = <<>>
  /\ idle = 0
  /\ threads = 0
  /\ worker = NoWorker
  /\ requests = [r \in Readers |-> NoRequest]
  /\ ops = 0

\* main(), line 1493: the sweep, with the listings os.listdir returns
Sweep ==
  /\ \E tmp \in listdir(disk, "/tmp"), var_tmp \in listdir(disk, "/var/tmp") :
       disk' = delete_old_transcodes(disk, tmp, var_tmp).files
  /\ UNCHANGED <<transcoders, app, idle, threads, worker, requests, ops>>

SweepSpec == SweepInit /\ [][Sweep]_vars

\* ============================================================= properties
Live == { j \in Jobs : transcoders[j].state = "live" }

\* request r leaves wait_for_byte in this step by a normal return
Returns(r) ==
  /\ requests[r].pc \in {"idle", "wait_mp4", "wait_done"}
  /\ requests'[r].pc = "serve"

\* C1: for a job that is not completed and whose source is an mp4 file,
\* wait_for_byte(offset) returns only when progress_bytes >= offset + buffer
\* or the job has completed.
C1_WaitForByte ==
  [][\A r \in Readers :
       Returns(r) =>
         LET t == transcoders[requests'[r].transcoder] IN
           Extension(t.source_fn) = "mp4" =>
             \/ t.done
             \/ t.progress_bytes >= requests'[r].offset + BUFFER]_vars

\* C2: a caller blocked in wait_for_byte on a job when destroy() is called
\* on it does not leave wait_for_byte by a normal return.
C2_DestroyedWhileWaiting ==
  [][\A r \in Readers :
       ( /\ Returns(r)
         /\ requests[r].pc \in {"wait_mp4", "wait_done"}
         /\ ~ requests[r].entered_destroyed )
       => ~ transcoders[requests[r].transcoder].destroyed]_vars

\* no update_transcoders thread is running or waiting to run
Quiescent == worker.pc = "idle" /\ threads = 0

\* C4: once the operations have run to completion, the job handed to HTTP
\* handlers is not one on which destroy() has been called.
C4_HandedJobNotDestroyed ==
  Quiescent =>
    \/ gnomecast.transcoder = NoJob
    \/ ~ transcoders[gnomecast.transcoder].destroyed

\* C5: while update_transcoders replaces the job of the selected file, the
\* job a request obtains from get_transcoder() has not had destroy() called
\* on it at the moment it is obtained.
C5_AtomicReplace ==
  [][\A r \in Readers :
       ( /\ requests[r].pc = "idle"
         /\ requests'[r].pc # "idle"
         /\ worker.pc = "ctor" )
       => ~ transcoders[requests'[r].transcoder].destroyed]_vars

\* the Transcoder objects created for file fn_ and not yet destroyed
Active(fn_) ==
  { j \in Live : /\ transcoders[j].source_fn = fn_
                 /\ ~ transcoders[j].destroyed }

\* C6: each queued file has at most one Transcoder that has been created and
\* not yet destroyed.
C6_OneJobPerRow ==
  \A i \in 1 .. Len(files_store) :
    Cardinality(Active(files_store[i].fn)) <= 1

\* C3: progress_bytes and progress_seconds of a job never decrease, whatever
\* updates the monitor processes.
C3_ProgressMonotonic ==
  [][\A j \in Jobs :
       (transcoders[j].state = "live" /\ transcoders'[j].state = "live") =>
         /\ transcoders'[j].progress_bytes >= transcoders[j].progress_bytes
         /\ transcoders'[j].progress_seconds >= transcoders[j].progress_seconds]_vars

\* the plan of job t needs no container change and no re-encode
NothingToDo(t) ==
  /\ Extension(t.source_fn) \in {"mp4", "aac", "mp3", "wav"}
  /\ ~ t.transcode_video
  /\ ~ t.transcode_audio

\* C7: a job whose plan needs no container change and no re-encode is done
\* when constructed, has had its done callback invoked exactly once, has no
\* encoder process and no temporary file, and its output path is the source.
C7_PassThrough ==
  \A j \in Live :
    NothingToDo(transcoders[j]) =>
      /\ transcoders[j].done
      /\ transcoders[j].done_calls = 1
      /\ transcoders[j].p = "none"
      /\ transcoders[j].monitor = "none"
      /\ transcoders[j].cmd = None
      /\ transcoders[j].trans_fn = NoPath
      /\ Fn(transcoders[j]) = transcoders[j].source_fn

C7_Witness ==
  \E j \in Live :
    /\ NothingToDo(transcoders[j])
    /\ transcoders[j].audio_stream # None
    /\ transcoders[j].destroyed

\* C8: avi with h264 video and aac audio, for a device without H.265 and
\* without AC-3: container change, and both tracks stream-copied.
C8_AviStreamCopy ==
  \A j \in Live :
    LET t == transcoders[j] IN
      ( /\ Extension(t.source_fn) = "avi"
        /\ t.video_stream.codec = "h264"
        /\ t.audio_stream # None
        /\ t.audio_stream.codec = "aac"
        /\ ~ device(t.cast).h265
        /\ ~ device(t.cast).ac3 )
      => /\ t.transcode
         /\ ~ t.transcode_video
         /\ ~ t.transcode_audio
         /\ t.cmd.c_v = "copy"
         /\ t.cmd.c_a = "copy"

\* C9: transcode_video is false iff the codec is h264, or the device
\* supports H.265, the cast is not audio-only and the codec is h265 or hevc.
C9_VideoReencode ==
  \A j \in Live :
    LET t == transcoders[j] IN
      (~ t.transcode_video) <=>
        \/ t.video_stream.codec = "h264"
        \/ /\ device(t.cast).h265
           /\ t.cast.cast_type # "audio"
           /\ t.video_stream.codec \in {"h265", "hevc"}

C9_Witness ==
  \E j \in Live :
    /\ transcoders[j].video_stream.codec = "h265"
    /\ transcoders[j].cast.cast_type = "audio"
    /\ device(transcoders[j].cast).h265
    /\ transcoders[j].transcode_video

\* the audio stream of job t needs no re-encode on its device
AudioAcceptable(t) ==
  \/ t.audio_stream = None
  \/ /\ device(t.cast).ac3
     /\ t.audio_stream.codec \in {"aac", "mp3", "ac3"}
  \/ /\ ~ device(t.cast).ac3
     /\ t.audio_stream.codec \in {"aac", "mp3"}

\* C10: transcode_audio is true iff the container extension is not aac, mp3
\* or wav, or the selected audio stream is not acceptable to the device.
C10_AudioReencode ==
  \A j \in Live :
    LET t == transcoders[j] IN
      t.transcode_audio <=>
        \/ Extension(t.source_fn) \notin {"aac", "mp3", "wav"}
        \/ ~ AudioAcceptable(t)

C10_Witness ==
  \E j \in Live :
    /\ Extension(transcoders[j].source_fn) = "wav"
    /\ transcoders[j].audio_stream # None
    /\ transcoders[j].audio_stream.codec = "ac3"
    /\ device(transcoders[j].cast).ac3
    /\ ~ transcoders[j].transcode_audio

\* the audio codec the plan of job t chooses
ChosenAudioCodec(t) ==
  IF ~ t.transcode_audio THEN "copy"
  ELSE IF /\ device(t.cast).ac3
          /\ t.audio_stream # None
          /\ t.audio_stream.channels > 2
       THEN "ac3" ELSE "mp3"

\* C11, as stated: the encoder of every job is given the chosen audio codec,
\* and the fixed audio bitrate option iff audio is re-encoded.
C11_AudioCodecAsStated ==
  \A j \in Live :
    LET t == transcoders[j] IN
      t.transcode =>
        /\ t.cmd.c_a = ChosenAudioCodec(t)
        /\ (t.cmd.b_a = "256k") <=> t.transcode_audio

\* C11, amended: with an audio stream selected the encoder is given ac3 when
\* audio is re-encoded, the device supports AC-3 and the stream has more than
\* 2 channels, mp3 when audio is re-encoded otherwise, copy when audio is
\* not re-encoded, and the bitrate option iff audio is re-encoded; with no
\* audio stream selected it is given no audio codec and no bitrate option.
C11_AudioCodec ==
  \A j \in Live :
    LET t == transcoders[j] IN
      t.transcode =>
        IF t.audio_stream # None
        THEN /\ t.cmd.c_a = ChosenAudioCodec(t)
             /\ (t.cmd.b_a = "256k") <=> t.transcode_audio
        ELSE /\ t.cmd.c_a = "absent"
             /\ t.cmd.b_a = "absent"

C11_Witness ==
  \E j \in Live :
    /\ transcoders[j].transcode_audio
    /\ transcoders[j].audio_stream # None
    /\ transcoders[j].audio_stream.channels = 6
    /\ device(transcoders[j].cast).ac3
    /\ transcoders[j].cmd.c_a = "ac3"
    /\ transcoders[j].cmd.b_a = "256k"

\* C12: a container change is needed iff the source extension is not mp4,
\* aac, mp3 or wav; a source with extension mkv always yields a transcoding
\* job, never a pass-through one.
C12_ContainerChange ==
  \A j \in Live :
    LET t == transcoders[j] IN
      /\ t.transcode_container <=>
            Extension(t.source_fn) \notin {"mp4", "aac", "mp3", "wav"}
      /\ Extension(t.source_fn) = "mkv" =>
            /\ t.transcode
            /\ t.p # "none"
            /\ t.trans_fn # NoPath
            /\ Fn(t) # t.source_fn

C12_Witness ==
  \E j \in Live :
    /\ Extension(transcoders[j].source_fn) = "mkv"
    /\ transcoders[j].video_stream.codec = "h264"
    /\ transcoders[j].audio_stream # None
    /\ transcoders[j].audio_stream.codec = "aac"
    /\ transcoders[j].transcode_container
    /\ transcoders[j].transcode

\* C13: wait_for_byte called on a job that is already completed returns at
\* once, without sleeping, for any offset and any source extension.
C13_DoneReturnsAtOnce ==
  [][\A r \in Readers :
       ( /\ requests[r].pc = "idle"
         /\ requests'[r].pc # "idle"
         /\ transcoders[requests'[r].transcoder].done )
       => requests'[r].pc = "serve"]_vars

C13_Witness ==
  \E r \in Readers :
    /\ requests[r].pc = "serve"
    /\ requests[r].entered_done
    /\ requests[r].offset = 209715200
    /\ transcoders[requests[r].transcoder].progress_bytes = 0

\* C14: a caller that was blocked in wait_for_byte when the job completed
\* with exit status 0 returns: once the job is done, the loop the caller
\* polls has a false test, so its next poll leaves the loop. Progress is
\* final once the monitor has ended, so a blocked caller whose test is
\* still true then is blocked for ever.
C14_BlockedCallerReturns ==
  \A r \in Readers :
    LET t == transcoders[requests[r].transcoder] IN
      ( /\ requests[r].pc \in {"wait_mp4", "wait_done"}
        /\ t.state = "live"
        /\ t.done
        /\ t.p = "exit0"
        /\ t.monitor = "exited" )
      => ~ waiting(t, requests[r].pc, requests[r].offset)

\* C15: for a job that is not completed and whose source is not an mp4
\* file, wait_for_byte does not return before done is true, whatever the
\* offset and the progress.
C15_NonMp4WaitsForDone ==
  [][\A r \in Readers :
       Returns(r) =>
         LET t == transcoders[requests'[r].transcoder] IN
           Extension(t.source_fn) # "mp4" => t.done]_vars

C15_Witness ==
  \E r \in Readers :
    LET t == transcoders[requests[r].transcoder] IN
      /\ requests[r].pc = "serve"
      /\ ~ requests[r].entered_done
      /\ Extension(t.source_fn) # "mp4"
      /\ t.progress_bytes > 0
      /\ t.done

\* C16: destroy() is idempotent: called on a job in any state, then called
\* again, the second call raises no error and leaves the object and the
\* files as the first call left them; the temporary file is absent after
\* the first call if it existed.
C16_DestroyIdempotent ==
  \A j \in Live :
    LET t == transcoders[j]
        once == destroy(t)
        files_once == destroy_files(t, disk)
    IN /\ ~ destroy_raises(t, disk)
       /\ ~ destroy_raises(once, files_once)
       /\ destroy(once) = once
       /\ destroy_files(once, files_once) = files_once
       /\ t.trans_fn \in disk => t.trans_fn \notin files_once

C16_Witness ==
  /\ transcoders[1].state = "live"
  /\ transcoders[1].destroyed
  /\ transcoders[1].opened
  /\ transcoders[1].p = "killed"
  /\ transcoders[1].trans_fn \notin disk

\* C17: when the encoder has exited with a code that is not zero and the
\* monitor thread is over, the error callback has been called exactly once,
\* the done callback never, and done is false.
C17_NonZeroExitReported ==
  \A j \in Live :
    LET t == transcoders[j] IN
      (t.p \in {"exit1", "killed"} /\ t.monitor # "running")
      => /\ t.error_calls = 1
         /\ t.done_calls = 0
         /\ ~ t.done

\* the part of C17 that the code keeps: a monitor that reads the end of the
\* output of an encoder that failed
C17_MonitorAtEofReports ==
  \A j \in Live :
    LET t == transcoders[j] IN
      (t.p \in {"exit1", "killed"} /\ t.monitor = "exited")
      => /\ t.error_calls = 1
         /\ t.done_calls = 0
         /\ ~ t.done

C19_LaunchFailureReported ==
  \A j \in Jobs :
    LET t == transcoders[j] IN
      t.state = "raised"
      => /\ t.error_calls = 1
         /\ t.monitor = "none"
         /\ t.p = "none"
         /\ ~ t.done

\* C20: whatever update the monitor of a running encoder reads next, it
\* goes on: a size field that is missing or not a number leaves
\* progress_bytes as it was, a time field that is missing or not a number
\* sets progress_seconds to zero, and the monitor thread does not end.
C20_TolerantParse ==
  \A j \in Live :
    LET t == transcoders[j] IN
      (t.monitor = "running" /\ Alive(t)) =>
        \A size \in SizeToks, time \in TimeToks :
          LET u == monitor_update(t, size, time) IN
            /\ u.monitor = "running"
            /\ size.tok \in {"absent", "N/A"}
               => u.progress_bytes = t.progress_bytes
            /\ time.tok \in {"absent", "N/A"}
               => u.progress_seconds = 0

\* C21: parsing one progress update sets progress_bytes to the integer of
\* the size token, its kb/kib suffix of any case removed and the spaces
\* after "=" ignored, times 1024, and progress_seconds to hours * 3600 +
\* minutes * 60 + seconds of the time token (here in hundredths); the
\* update quoted in monitor gives 1142542 * 1024 bytes and 3861.14 seconds.
C21_ParseUpdate ==
  \A j \in Live :
    LET t == transcoders[j] IN
      (t.monitor = "running" /\ Alive(t)) =>
        /\ \A n \in LineSizes, unit \in LineUnits, gap \in LineGaps :
             \A tm \in LineTimes :
               LET u == monitor_line(t, ProgressLine(n, unit, gap,
                                                     tm[1], tm[2], tm[3]))
               IN /\ u.monitor = "running"
                  /\ u.progress_bytes = n * 1024
                  /\ u.progress_seconds =
                       tm[1] * 3600 * 100 + tm[2] * 60 * 100 + tm[3]
        /\ monitor_line(t, ExampleLine).progress_bytes = 1142542 * 1024
        /\ monitor_line(t, ExampleLine).progress_seconds = 386114

C21_Witness ==
  /\ transcoders[1].state = "live"
  /\ transcoders[1].monitor = "running"
  /\ transcoders[1].progress_bytes = 1142542 * 1024
  /\ transcoders[1].progress_seconds = 386114

\* C22: quit destroys every Transcoder that exists: each object that was
\* created and is live when quit is called has had destroy() called on it
\* when quit returns, so that none is left created and never destroyed.
C22_QuitDestroysAll ==
  [][(~ gnomecast.quit /\ gnomecast'.quit) =>
       \A j \in Jobs :
         transcoders[j].state = "live" =>
           \/ transcoders'[j].destroyed
           \/ transcoders'[j].state # "live"]_vars

\* C23: a step of a media request, be it the entry, a return from
\* wait_for_byte, the response, a failure or the player giving up, changes
\* no field of a job that exists before and after it, and leaves every
\* other request that waits on a job as able or unable to return as it was.
C23_RequestFrame ==
  [][\A r \in Readers :
       requests'[r] # requests[r] =>
         /\ \A j \in Jobs :
              (transcoders[j].state = "live" /\ transcoders'[j].state = "live")
              => transcoders'[j] = transcoders[j]
         /\ \A q \in Readers \ {r} :
              requests[q].pc \in {"wait_mp4", "wait_done"} =>
                /\ requests'[q] = requests[q]
                /\ waiting(transcoders'[requests[q].transcoder],
                           requests[q].pc, requests[q].offset)
                   = waiting(transcoders[requests[q].transcoder],
                             requests[q].pc, requests[q].offset)]_vars

\* a request was given up while it waited and has ended, and another
\* request still waits on the same job, which runs
C23_Witness ==
  \E r, q \in Readers :
    /\ r # q
    /\ requests[r].pc = "serve"
    /\ requests[r].abandoned
    /\ requests[q].pc = "wait_mp4"
    /\ requests[q].transcoder = requests[r].transcoder
    /\ transcoders[requests[q].transcoder].p = "running"
    /\ ~ transcoders[requests[q].transcoder].done

\* C24: when a Transcoder is constructed with a previous job, destroy() has
\* been called on the previous job before the new job has a process and
\* before its done callback is called, for a new job that transcodes and
\* for one that does not: while the constructor runs the new object has no
\* process and no callback made, and in the step that gives it either, the
\* previous job is already destroyed.
C24_PrevDestroyedFirst ==
  [][\A j \in Jobs :
       transcoders[j].state = "init" =>
         /\ transcoders[j].p = "none"
         /\ transcoders[j].done_calls = 0
         /\ (transcoders'[j].state = "live" /\ worker.prev # NoJob)
            => \/ transcoders[worker.prev].destroyed
               \/ transcoders[worker.prev].state = "collected"]_vars

\* a job that transcodes has replaced one whose encoder is not yet gone
C24_Witness ==
  \E j, k \in Jobs :
    /\ j # k
    /\ transcoders[j].state = "live"
    /\ transcoders[j].p = "running"
    /\ ~ transcoders[j].destroyed
    /\ transcoders[k].state = "live"
    /\ transcoders[k].destroyed
    /\ transcoders[k].p = "terminating"
    /\ transcoders[k].source_fn = transcoders[j].source_fn
    /\ \E i \in 1 .. Len(files_store) : files_store[i].transcoder = j

\* C25: the handler gives static_file a path only when wait_for_byte has
\* returned on the job it obtained from get_transcoder, and the path is that
\* job's output: its source for a job that does not transcode, its temporary
\* file otherwise, also when another job has been selected meanwhile.
C25_ServesObtainedJob ==
  [][\A r \in Readers :
       /\ requests'[r].pc # "serve" => requests'[r].fn = NoPath
       /\ Returns(r) =>
            LET job == IF requests[r].pc = "idle" THEN gnomecast.transcoder
                       ELSE requests[r].transcoder
                t == transcoders'[job]
            IN /\ requests'[r].transcoder = job
               /\ \/ t.done
                  \/ /\ Extension(t.source_fn) = "mp4"
                     /\ requests'[r].offset <= t.progress_bytes + BUFFER
               /\ requests'[r].fn =
                    IF t.transcode THEN t.trans_fn ELSE t.source_fn]_vars

\* a request that waited is given its job's temporary file after another
\* job has been selected
C25_Witness ==
  \E r \in Readers :
    /\ requests[r].pc = "serve"
    /\ ~ requests[r].entered_done
    /\ gnomecast.transcoder \notin {NoJob, requests[r].transcoder}
    /\ transcoders[requests[r].transcoder].transcode
    /\ requests[r].fn = transcoders[requests[r].transcoder].trans_fn
    /\ requests[r].fn # Fn(transcoders[gnomecast.transcoder])

\* reader r sleeps in a loop of wait_for_byte whose test is true
Blocked(r) ==
  /\ requests[r].pc \in {"wait_mp4", "wait_done"}
  /\ waiting(transcoders[requests[r].transcoder], requests[r].pc,
             requests[r].offset)

\* C26: a reader blocked in wait_for_byte holds no lock: while it is
\* blocked, another reader of the same job whose offset is available can
\* return or enter and return, the monitor of the job can publish progress,
\* and an update_transcoders thread can take update_transcoders_lock and
\* go on to replace the job.
C26_BlockedHoldsNoLock ==
  \A r \in Readers :
    Blocked(r) =>
      LET k == requests[r].transcoder IN
        /\ \A q \in Readers \ {r} :
             /\ (requests[q].pc \in {"wait_mp4", "wait_done"} /\ ~ Blocked(q))
                => ENABLED WaitReturn(q)
             /\ (requests[q].pc = "idle" /\ gnomecast.transcoder = k)
                => ENABLED Request(q, 0)
        /\ (transcoders[k].monitor = "running" /\ Alive(transcoders[k]))
           => \A size \in AppSizeToks, time \in AppTimeToks :
                ENABLED MonitorUpdate(k, size, time)
        /\ (worker.pc = "idle" /\ threads > 0) => ENABLED WorkerAcquire
        /\ (worker.pc = "loop" /\ FreeJobs(transcoders) # {})
           => ENABLED WorkerRow
        /\ worker.pc = "ctor" => ENABLED WorkerConstruct

\* one reader is blocked on a job, another reader of that job is past
\* wait_for_byte, and the job has been replaced meanwhile
C26_Witness ==
  \E r, q \in Readers :
    /\ r # q
    /\ Blocked(r)
    /\ requests[q].pc = "serve"
    /\ requests[q].transcoder = requests[r].transcoder
    /\ ~ requests[q].entered_done
    /\ gnomecast.transcoder \notin {NoJob, requests[r].transcoder}
    /\ transcoders[gnomecast.transcoder].p = "running"

\* C27: destroy() called on a job that transcodes and whose encoder has
\* exited sends no signal (the process stays as it exited) and still
\* removes the job's temporary file if it exists.
C27_DestroyAfterExit ==
  \A j \in Live :
    LET t == transcoders[j] IN
      (t.transcode /\ t.p \in {"exit0", "exit1", "killed"}) =>
        /\ destroy(t).p = t.p
        /\ destroy(t).destroyed
        /\ t.trans_fn \notin destroy_files(t, disk)
        /\ destroy_files(t, disk) = disk \ {t.trans_fn}

\* destroy() was called on a job whose encoder had exited with code 0 and
\* had written its file, which is gone
C27_Witness ==
  /\ transcoders[1].state = "live"
  /\ transcoders[1].transcode
  /\ transcoders[1].p = "exit0"
  /\ transcoders[1].opened
  /\ transcoders[1].destroyed
  /\ transcoders[1].trans_fn \notin disk

\* C28: no two jobs that transcode and are live at the same time, created
\* and not destroyed, have the same temporary output path.
C28_UniqueTempPaths ==
  \A j, k \in Live :
    ( /\ j # k
      /\ transcoders[j].transcode /\ ~ transcoders[j].destroyed
      /\ transcoders[k].transcode /\ ~ transcoders[k].destroyed )
    => transcoders[j].trans_fn # transcoders[k].trans_fn

\* C29: the sweep deletes a file gnomecast_pid<N>_... of /tmp or /var/tmp
\* if and only if process N is not running, deletes every file gnomecast_...
\* without a pid, and touches no other file.
C29_SweepDeletesOrphans ==
  [][/\ \A dir \in {"/tmp", "/var/tmp"}, pid \in SweepPids, c \in {"a", "b"} :
          LET f == TmpFile(dir, PidName(pid, c)) IN
            f \in disk => (f \notin disk' <=> pid \notin RunningPids)
     /\ TmpFile("/tmp", OldName("t")) \notin disk'
     /\ TmpFile("/tmp", OtherName) \in disk
          => TmpFile("/tmp", OtherName) \in disk'
     /\ disk' \subseteq disk]_vars

C31_NoErrorAfterDestroy ==
  \A j \in Jobs :
    (transcoders[j].state = "live" /\ transcoders[j].error_calls > 0)
      => transcoders[j].p # "killed"

\* the row of the selected file in the queue, 0 when there is none
SelectedRow ==
  IF \E i \in 1 .. Len(files_store) : files_store[i].fn = gnomecast.fn
  THEN CHOOSE i \in 1 .. Len(files_store) : files_store[i].fn = gnomecast.fn
  ELSE 0

\* C32: check_for_next_in_queue with the selected file at row i selects the
\* file of row i+1, and leaves the selection as it is when i is the last
\* row; it never selects a file further down the queue.
C32_NextInQueue ==
  LET r == check_loop(1, FALSE, gnomecast, 0) IN
    (gnomecast.cast # None /\ SelectedRow > 0)
      => r.g.fn = IF SelectedRow < Len(files_store)
                  THEN files_store[SelectedRow + 1].fn
                  ELSE gnomecast.fn

\* the row update_transcoders visits next, 0 when there is none
NextWorkerRow ==
  IF worker.pc = "loop" /\ WorkerRows # {}
  THEN CHOOSE k \in WorkerRows : \A m \in WorkerRows : k <= m
  ELSE 0

\* the object of row i is there and was made for the receiver, the file
\* and the audio stream selected now
SelectionUnchanged(i) ==
  LET j == files_store[i].transcoder IN
    /\ j # NoJob
    /\ transcoders[j].state = "live"
    /\ gnomecast.cast = transcoders[j].cast
    /\ gnomecast.fn = transcoders[j].source_fn
    /\ gnomecast.audio_stream = transcoders[j].audio_stream

\* C33: update_transcoders on a selected row whose job was made for the
\* receiver, file and audio stream selected now neither destroys that job
\* nor constructs another.
C33_UnchangedSelectionKeepsJob ==
  [][(/\ NextWorkerRow > 0
      /\ SelectionUnchanged(NextWorkerRow)
      /\ worker' # worker)
     => /\ worker'.pc # "ctor"
        /\ transcoders' = transcoders
        /\ files_store' = files_store
        /\ disk' = disk]_vars

\* a further call of update_transcoders holds the lock and comes to the
\* selected row, whose encoder an earlier call started and which still runs
\* for the receiver, file and audio stream selected now
C33_Witness ==
  /\ NextWorkerRow > 0
  /\ SelectionUnchanged(NextWorkerRow)
  /\ LET t == transcoders[files_store[NextWorkerRow].transcoder] IN
       /\ t.transcode
       /\ t.p = "running"
       /\ ~ t.destroyed

\* C34: every Transcoder that update_transcoders makes for a file is given a
\* video stream and an audio stream of that file's own metadata.
C34_StreamsOfOwnFile ==
  \A j \in Jobs :
    LET t == transcoders[j] IN
      t.state \in {"init", "live"}
        => LET fmd == Probe(t.source_fn) IN
             /\ \E v \in 1 .. Len(fmd.video_streams) :
                  t.video_stream = fmd.video_streams[v]
             /\ \E a \in 1 .. Len(fmd.audio_streams) :
                  t.audio_stream = fmd.audio_streams[a]

\* C35: a call of prep_next_transcode (from update_status after a job has
\* transcoded) gives a job to at most one row, and only to the row right
\* after the selected file, only when that row had none and the selected
\* file's job is done.
C35_PrepOnlyNextRow ==
  [][idle' < idle =>
       \A i \in 1 .. Len(files_store) :
         files_store'[i].transcoder # files_store[i].transcoder
           => /\ files_store[i].transcoder = NoJob
              /\ i > 1
              /\ files_store[i - 1].fn = gnomecast.fn
              /\ files_store[i - 1].transcoder # NoJob
              /\ transcoders[files_store[i - 1].transcoder].done
              /\ \A k \in 1 .. Len(files_store) :
                   k # i => files_store'[k] = files_store[k]]_vars

\* C36: no two rows of the queue have the same path.
C36_DistinctPaths ==
  \A i, k \in 1 .. Len(files_store) :
    i # k => files_store[i].fn # files_store[k].fn

\* C37: every call of the throttled wrapper is followed by a run of the
\* function with the arguments of that call or of a later one, so that when
\* no Timer is left the function has last run with the arguments of the
\* last call; and at most one Timer is pending at any time.
C37_CallsAreRun ==
  LET th == gnomecast.volume_moved IN
    /\ th.waiting + th.running <= 1
    /\ (~ th.timer /\ th.waiting = 0 /\ th.running = 0)
         => th.ran = th.latest_args

\* C38: once destroy() has been called on a transcoding job and its encoder
\* has exited, the job's temporary file does not exist.
C38_NoFileAfterDestroy ==
  \A j \in Jobs :
    LET t == transcoders[j] IN
      (/\ t.state = "live"
       /\ t.transcode
       /\ t.destroyed
       /\ t.p \in {"exit0", "exit1", "killed"})
      => t.trans_fn \notin disk

\* C39: the screen saver service holds at most one inhibition of the
\* application, the one whose cookie the inhibitor keeps: after stop() no
\* inhibition is left.
C39_OneInhibition ==
  /\ Cardinality(gnomecast.inhibited) <= 1
  /\ gnomecast.screen_saver_inhibitor.inhibit_cookie = 0
       => gnomecast.inhibited = {}
  /\ gnomecast.screen_saver_inhibitor.inhibit_cookie # 0
       => gnomecast.inhibited = {gnomecast.screen_saver_inhibitor.inhibit_cookie}

====
